---- MODULE Spec2Model ----
(***************************************************************************)
(* Verification model of the graph dataframe (graph-viz Dataframe.js):     *)
(* edge canonicalisation (encapsulateEdges), mask composition              *)
(* (composeMasks) and the in-place filter pipeline                         *)
(* (applyDataframeMaskToFilterInPlace).                                    *)
(*                                                                         *)
(* JavaScript arrays and typed arrays are modelled as functions over       *)
(* 0..n-1.  A flattened (src, dst) edge array is modelled as an array of   *)
(* pairs <<src, dst>>; a flattened work-item array as an array of          *)
(* 4-tuples.                                                               *)
(***************************************************************************)
EXTENDS Integers, Sequences, FiniteSets, TLC

VARIABLES
    encIn,      \* arguments of the encapsulateEdges call: [edges, numPoints]
    encOut,     \* its returned encapsulation, or NoValue before the call
    cmArgs,     \* arguments of the composeMasks call, as they were passed
    cmHeap,     \* the caller's selectionMasks array and limits object now
    cmOut,      \* the mask composeMasks returned, or NoValue before the call
    rawdata,            \* Dataframe.rawdata
    typedArrayCache,    \* Dataframe.typedArrayCache: NoValue while it is {}
    lastPointPositions, \* Dataframe.lastPointPositions: NoValue while null
    lastMasks,          \* fields of the Dataframe.lastMasks object
    data,               \* Dataframe.data
    versions,           \* simulator.versions
    gpuCurPoints,       \* contents of the curPoints buffers on the device
    gpuHandles,         \* the point and edge buffer handles created on the device
    pass,               \* the filter pass in flight, with its closure variables
    passesStarted,      \* number of filter passes started so far
    lastCall,           \* the latest settled filter call and its outcome
    call,       \* a call of a synchronous dataframe operation: its name, its
                \* arguments and the dataframe state it reads
    returned,   \* what that call returned, or NoValue before it ran
    stream      \* a socket's streaming loop: the closure variables of stream(),
                \* its position, and the 'vbo_update' messages emitted so far

encVars == <<encIn, encOut>>
cmVars == <<cmArgs, cmHeap, cmOut>>
dfVars == <<rawdata, typedArrayCache, lastPointPositions, lastMasks, data,
            versions, gpuCurPoints, gpuHandles, pass, passesStarted, lastCall>>
opVars == <<call, returned, stream>>
vars == <<encIn, encOut, cmArgs, cmHeap, cmOut, rawdata, typedArrayCache,
          lastPointPositions, lastMasks, data, versions, gpuCurPoints,
          gpuHandles, pass, passesStarted, lastCall, call, returned, stream>>

----------------------------------------------------------------------------
(* Bounds of the model *)
MaxPoints == 3      \* point ids range over 0..MaxPoints-1
MaxEdges == 3       \* longest edge pair array passed to encapsulateEdges
CmNumPoints == 3    \* points of the dataframe composeMasks runs on
CmNumEdges == 1     \* edges of the dataframe composeMasks runs on
MaxSelection == 2   \* selection masks chosen freely
MaxExclusion == 1   \* exclusion masks
MaxLimit == 1       \* largest finite limit
FNumPoints == 2     \* points of the filtered dataframe
FNumEdges == 1      \* edges of the filtered dataframe
MaxPasses == 2      \* filter passes started, rejected ones included
PosPasses == 3      \* passes started when the position baseline is followed
OrdNumPoints == 3   \* points of the dataframe whose edge order is followed
OrdNumEdges == 2    \* edges of the dataframe whose edge order is followed
MaxHandles == 1     \* point and edge buffer handles created by getBuffer
MaxColumn == 4      \* longest column handed to an aggregation
MaxValue == 2       \* column values range over -1..MaxValue
MaxDistinct == 2    \* largest limit passed to countDistinct
BinMaxColumn == 3   \* longest column a binning is calculated for
MaxGoalBins == 3    \* largest goalNumberOfBins
CbMaxColumn == 6    \* longest column handed to countBy
MaxBins == 3        \* largest small bin cap countBy is run with
MaxSteps == 12      \* iterations of a socket's streaming loop

(* JavaScript values *)
NoValue == [none |-> TRUE]          \* undefined / null

\* The value a Uint32Array slot holds after x is stored in it, for x above
\* -2^32: x itself when it is not negative, 2^32 + x otherwise.  2^32 + x lies
\* above the integers TLC represents and is carried as a record.
ToUint32(x) == IF x >= 0 THEN x ELSE [twoTo32Plus |-> x]

ALen(a) == Cardinality(DOMAIN a)
EmptyArr == [i \in {} |-> 0]
Indices(n) == 0..(n - 1)

----------------------------------------------------------------------------
(* Edge Canonicalizer *)

\* a comparator that orders by source only
EdgeCompareSourceOnly(edges, a, b) == edges[a][1] - edges[b][1]

\* comparator handed to sort in computeEdgeList
EdgeCompare(edges, a, b) ==
    IF edges[a][1] - edges[b][1] # 0
    THEN edges[a][1] - edges[b][1]
    ELSE edges[a][2] - edges[b][2]

IndexPermutations(n) ==
    {p \in [Indices(n) -> Indices(n)] : \A i, j \in Indices(n) : p[i] = p[j] => i = j}

\* The orders Array.prototype.sort may leave `mapped` in: every arrangement of
\* 0..n-1 that is ordered under the comparator.  The relative order of edges
\* that compare equal is not fixed by the sort.
SortedOriginals(edges) ==
    {p \in IndexPermutations(ALen(edges)) :
        \A i, j \in Indices(ALen(edges)) :
            i < j => EdgeCompare(edges, p[i], p[j]) <= 0}

\* computeEdgeList ("first time through" branch, the other one is disabled by
\* `false &&`): pair i of the sorted list is input pair mapped[i].
computeEdgeList(edges, mapped) ==
    [edgeListTyped |-> [i \in Indices(ALen(edges)) |-> edges[mapped[i]]],
     originals |-> mapped]

RECURSIVE CountRun(_, _, _)
\* the inner while loop of computeWorkItemsTyped: position after the run of
\* edges with source i that starts at pos
CountRun(edgesTyped, pos, i) ==
    IF pos < ALen(edgesTyped) /\ edgesTyped[pos][1] = i
    THEN CountRun(edgesTyped, pos + 1, i)
    ELSE pos

RECURSIVE WorkItemsLoop(_, _, _, _, _, _)
WorkItemsLoop(edgesTyped, numPoints, i, edgeListLastPos, edgeListLastSrc, acc) ==
    IF i >= numPoints THEN acc
    ELSE IF edgeListLastSrc = i
    THEN LET startingIdx == edgeListLastPos
             newPos == CountRun(edgesTyped, edgeListLastPos, i)
             count == newPos - startingIdx
             newSrc == IF newPos < ALen(edgesTyped) THEN edgesTyped[newPos][1] ELSE -1
         IN WorkItemsLoop(edgesTyped, numPoints, i + 1, newPos, newSrc,
                          [acc EXCEPT ![i] = <<startingIdx, count, i, 0>>])
    ELSE WorkItemsLoop(edgesTyped, numPoints, i + 1, edgeListLastPos, edgeListLastSrc,
                       [acc EXCEPT ![i] = <<-1, 0, i, 0>>])

\* a scan that starts from source 0 whatever the first edge is
computeWorkItemsTypedFromZero(edgesTyped, numPoints) ==
    WorkItemsLoop(edgesTyped, numPoints, 0, 0, 0,
                  [i \in Indices(numPoints) |-> <<0, 0, 0, 0>>])

\* edgeListLastSrc starts as edgesTyped[0]; for an empty array that is
\* undefined, which like -1 equals no point id
computeWorkItemsTyped(edgesTyped, numPoints) ==
    WorkItemsLoop(edgesTyped, numPoints, 0, 0,
                  IF ALen(edgesTyped) > 0 THEN edgesTyped[0][1] ELSE -1,
                  [i \in Indices(numPoints) |-> <<0, 0, 0, 0>>])

\* the end taken from the next work item without looking further
SkipGapNone(workItemsTyped, end, j) == end

RECURSIVE SkipGap(_, _, _)
\* the while loop of computeEdgeStartEndIdxs
SkipGap(workItemsTyped, end, j) ==
    IF end < 0 /\ (j + 1) < ALen(workItemsTyped)
    THEN SkipGap(workItemsTyped, workItemsTyped[j + 1][1], j + 1)
    ELSE end

computeEdgeStartEndIdxs(workItemsTyped, edgesTyped, numPoints) ==
    LET n == ALen(workItemsTyped)
        numEdges == ALen(edgesTyped)
        body(i) ==
            LET start == workItemsTyped[i][1]
            IN IF start = -1 THEN <<ToUint32(-1), ToUint32(-1)>>
               ELSE LET end0 == SkipGap(workItemsTyped, workItemsTyped[i + 1][1], i + 1)
                        end == IF end0 = -1 THEN numEdges ELSE end0
                    IN <<ToUint32(start), ToUint32(end)>>
        last ==
            IF workItemsTyped[n - 1][1] # -1
            THEN <<ToUint32(workItemsTyped[n - 1][1]), ToUint32(numEdges)>>
            ELSE <<ToUint32(-1), ToUint32(-1)>>
    IN [i \in Indices(numPoints) |-> IF i < n - 1 THEN body(i) ELSE last]

SetMax(S) == CHOOSE x \in S : \A y \in S : y <= x

\* a loop `table[keys[i]] = values[i]` for i = 0..n-1 over a zero-filled
\* typed array of the given length: the last write to a slot wins, a write
\* outside the array is dropped
ScatterLoop(length, keys, values) ==
    [k \in Indices(length) |->
        LET writers == {i \in DOMAIN keys : keys[i] = k}
        IN IF writers = {} THEN 0 ELSE values[SetMax(writers)]]

\* the commented-out alternative in encapsulateEdges: the table itself
InvertPermutationAlias(inverse) == inverse

\* edgePermutationTyped[val] = i for every (val, i) of the inverse table
InvertPermutation(inverse) ==
    ScatterLoop(ALen(inverse), inverse, [i \in DOMAIN inverse |-> i])

\* reading the id slot of a work item in place of its count slot
DegreesByPointFromId(workItemsTyped, numPoints) ==
    ScatterLoop(numPoints,
                [i \in Indices(numPoints) |-> workItemsTyped[i][3]],
                [i \in Indices(numPoints) |-> ToUint32(workItemsTyped[i][3])])

\* degreesTyped[workItemsTyped[i*4 + 2]] = workItemsTyped[i*4 + 1]
DegreesByPoint(workItemsTyped, numPoints) ==
    ScatterLoop(numPoints,
                [i \in Indices(numPoints) |-> workItemsTyped[i][3]],
                [i \in Indices(numPoints) |-> ToUint32(workItemsTyped[i][2])])

\* srcToWorkItem[workItemsTyped[i*4 + 2]] = i
SrcToWorkItem(workItemsTyped, numPoints) ==
    ScatterLoop(numPoints,
                [i \in Indices(numPoints) |-> workItemsTyped[i][3]],
                [i \in Indices(numPoints) |-> i])

\* Dataframe.prototype.encapsulateEdges, given the order the sort produced
encapsulateEdges(edges, numPoints, mapped) ==
    LET edgeListObj == computeEdgeList(edges, mapped)
        edgesTyped == edgeListObj.edgeListTyped
        edgePermutationInverseTyped == edgeListObj.originals
        numEdges == ALen(edgesTyped)
        edgePermutationTyped == InvertPermutation(edgePermutationInverseTyped)
        workItemsTyped == computeWorkItemsTyped(edgesTyped, numPoints)
        degreesTyped == DegreesByPoint(workItemsTyped, numPoints)
        srcToWorkItem == SrcToWorkItem(workItemsTyped, numPoints)
    IN [degreesTyped |-> degreesTyped,
        edgesTyped |-> edgesTyped,
        edgePermutation |-> edgePermutationTyped,
        edgePermutationInverseTyped |-> edgePermutationInverseTyped,
        numWorkItems |-> 4 * ALen(workItemsTyped),
        workItemsTyped |-> workItemsTyped,
        srcToWorkItem |-> srcToWorkItem,
        edgeStartEndIdxsTyped |->
            computeEdgeStartEndIdxs(workItemsTyped, edgesTyped, numPoints)]

----------------------------------------------------------------------------
(* DataframeMask: a pair of index selections, each either undefined (the   *)
(* full range of the owning dataframe) or an array of global indices.      *)

GraphComponentTypes == {"point", "edge"}

FullSel == [full |-> TRUE, idx |-> EmptyArr]
ListSel(a) == [full |-> FALSE, idx |-> a]
DataframeMask(point, edge) == [point |-> point, edge |-> edge]

\* numPoints() / numEdges(): the raw count when the selection is undefined
MaskNum(sel, rawNum) == IF sel.full THEN rawNum ELSE ALen(sel.idx)

\* mapPointIndexes / mapEdgeIndexes: the global indices handed to the
\* iterator, by local position
MaskIndexes(sel, rawNum) ==
    IF sel.full THEN [i \in Indices(rawNum) |-> i] ELSE sel.idx

\* the array listing the set S in ascending order
Ascending(S) ==
    [k \in Indices(Cardinality(S)) |->
        CHOOSE x \in S : Cardinality({y \in S : y < x}) = k]

Selections(n) == {FullSel} \cup {ListSel(Ascending(S)) : S \in SUBSET Indices(n)}

\* fullDataframeMask
fullDataframeMask == DataframeMask(FullSel, FullSel)

----------------------------------------------------------------------------
(* Mask Composer *)

MASK_LIMIT == 255
Uint8Mod == 256                 \* counters live in a Uint8Array

Infinity == [finite |-> FALSE, n |-> 0]
Finite(n) == [finite |-> TRUE, n |-> n]
\* targetMask.length >= limit
ReachedLimit(length, limit) == limit.finite /\ length >= limit.n

\* limits as composeMasks uses them: a missing object or a missing key
\* becomes Infinity
DefaultLimits(limits) ==
    IF limits = NoValue THEN [point |-> Infinity, edge |-> Infinity]
    ELSE [type \in GraphComponentTypes |->
            IF limits[type] = NoValue THEN Infinity ELSE limits[type]]

\* selectionMasks.length = 255 when there are more than MASK_LIMIT of them
TruncateSelection(selectionMasks) ==
    IF ALen(selectionMasks) > MASK_LIMIT
    THEN [k \in Indices(255) |-> selectionMasks[k]]
    ELSE selectionMasks

\* positions at which a mask yields index i
Hits(sel, rawNum, i) ==
    LET visited == MaskIndexes(sel, rawNum)
    IN {k \in DOMAIN visited : visited[k] = i}

\* the "reduce over AND" loop: the number of increments the byte counter of
\* index i receives, one for every hit of every selection mask
CountHits(selectionMasks, type, rawNum, i) ==
    Cardinality(UNION {{k} \X Hits(selectionMasks[k][type], rawNum, i) :
                          k \in DOMAIN selectionMasks})

\* counters that an exclusion hit leaves as they are
SatisfiedCountersNoExclusion(selectionMasks, exclusionMasks, type, rawNum) ==
    [i \in Indices(rawNum) |->
        CountHits(selectionMasks, type, rawNum, i) % Uint8Mod]

\* numMasksSatisfiedByPointID / numMasksSatisfiedByEdgeID after both loops
SatisfiedCounters(selectionMasks, exclusionMasks, type, rawNum) ==
    [i \in Indices(rawNum) |->
        IF \E k \in DOMAIN exclusionMasks :
              Hits(exclusionMasks[k][type], rawNum, i) # {}
        THEN 0
        ELSE CountHits(selectionMasks, type, rawNum, i) % Uint8Mod]

Push(a, x) == [k \in Indices(ALen(a) + 1) |-> IF k < ALen(a) THEN a[k] ELSE x]

RECURSIVE CollectLoop(_, _, _, _, _)
\* the for loop that fills result[type]
CollectLoop(counters, numMasks, limit, i, targetMask) ==
    IF i >= ALen(counters) THEN targetMask
    ELSE LET pushed == IF counters[i] = numMasks THEN Push(targetMask, i)
                       ELSE targetMask
         IN IF ReachedLimit(ALen(pushed), limit) THEN pushed
            ELSE CollectLoop(counters, numMasks, limit, i + 1, pushed)

\* Dataframe.prototype.composeMasks on a dataframe of rawNum.point points and
\* rawNum.edge edges.  Returns the result mask with the caller's
\* selectionMasks array and limits object as the call leaves them.
composeMasks(selectionMasks, exclusionMasks, limits, rawNum) ==
    LET limitsUsed == DefaultLimits(limits)
        selected == IF ALen(selectionMasks) = 0
                    THEN [k \in Indices(1) |-> fullDataframeMask]
                    ELSE selectionMasks
        numMasks == ALen(selected)
        truncated == TruncateSelection(selected)
        resultOf(type) ==
            CollectLoop(SatisfiedCounters(truncated, exclusionMasks, type, rawNum[type]),
                        numMasks, limitsUsed[type], 0, EmptyArr)
    IN [result |-> DataframeMask(ListSel(resultOf("point")), ListSel(resultOf("edge"))),
        selectionMasks |-> IF ALen(selectionMasks) = 0 THEN selectionMasks ELSE truncated,
        limits |-> IF limits = NoValue THEN limits ELSE limitsUsed]

----------------------------------------------------------------------------
(* Filter Engine: Dataframe.prototype.applyDataframeMaskToFilterInPlace     *)

\* no synchronous operation is being followed
OpUnused == call = NoValue /\ returned = NoValue /\ stream = NoValue

\* the dataframe is not in use
DfUnused ==
    /\ rawdata = NoValue /\ typedArrayCache = NoValue
    /\ lastPointPositions = NoValue /\ lastMasks = NoValue /\ data = NoValue
    /\ versions = NoValue /\ gpuCurPoints = NoValue /\ gpuHandles = NoValue
    /\ pass = NoValue
    /\ passesStarted = 0 /\ lastCall = NoValue

Idle == [pc |-> "idle"]

Prefix(a, n) == [k \in Indices(IF n < ALen(a) THEN n ELSE ALen(a)) |-> a[k]]

\* a view of the first ALen(view) slots of a scratch buffer, written through
WritePrefix(buffer, view) ==
    [k \in DOMAIN buffer |-> IF k < ALen(view) THEN view[k] ELSE buffer[k]]

Zeroes(n) == [k \in Indices(n) |-> 0]

\* initializeTypedArrayCache: scratch buffers sized to the raw counts.  An
\* edge slot of filteredEdges / edgesFlipped holds a (src, dst) pair; a point
\* slot of the position buffers holds an (x, y) pair, modelled as one value.
initializeTypedArrayCache(oldNumPoints, oldNumEdges) ==
    [filteredEdges |-> [k \in Indices(oldNumEdges) |-> <<0, 0>>],
     unsortedEdgeMask |-> Zeroes(oldNumEdges),
     edgesFlipped |-> [k \in Indices(oldNumEdges) |-> <<0, 0>>],
     newPointSizes |-> Zeroes(oldNumPoints),
     newPointColors |-> Zeroes(oldNumPoints),
     newEdgeColors |-> Zeroes(oldNumEdges),
     newEdgeHeights |-> Zeroes(oldNumEdges),
     tempCurPoints |-> Zeroes(oldNumPoints),
     newCurPoints |-> Zeroes(oldNumPoints)]

\* the readiness test that looks at the forward weights only
SimBuffersReadyForwardsOnly(raw) == "forwardsEdgeWeights" \in raw.simulatorBuffers

\* rawSimBuffers.forwardsEdgeWeights and .backwardsEdgeWeights are defined
SimBuffersReady(raw) ==
    /\ "forwardsEdgeWeights" \in raw.simulatorBuffers
    /\ "backwardsEdgeWeights" \in raw.simulatorBuffers

\* Array.prototype.sort with (a, b) => a - b
SortAscending(a) ==
    LET p == CHOOSE q \in IndexPermutations(ALen(a)) :
                \A i, j \in DOMAIN a : i < j => a[q[i]] <= a[q[j]]
    IN [i \in DOMAIN a |-> a[p[i]]]

\* a read of a slot that may be missing, stored into a Uint32Array
StoredOrZero(table, k) == IF k \in DOMAIN table THEN table[k] ELSE 0

\* the mask's sorted edge indices taken as unsorted indices
UnsortedEdgeMaskUnmapped(masks, raw) ==
    SortAscending(MaskIndexes(masks.edge, raw.numElements.edge))

\* unsortedEdgeMask: the mask's sorted edge indices through
\* edgePermutationInverseTyped, then sorted ascending
UnsortedEdgeMask(masks, raw) ==
    LET visited == MaskIndexes(masks.edge, raw.numElements.edge)
        map == raw.forwardsEdges.edgePermutationInverseTyped
    IN SortAscending([i \in DOMAIN visited |-> StoredOrZero(map, visited[i])])

\* pointOriginalLookup[pointIndex] = i
PointOriginalLookup(masks, raw) ==
    LET visited == MaskIndexes(masks.point, raw.numElements.point)
    IN [p \in {visited[k] : k \in DOMAIN visited} |->
            SetMax({k \in DOMAIN visited : visited[k] = p})]

\* filteredEdges: endpoints of the masked unsorted edges as local point ids
FilteredEdges(unsortedEdgeMask, pointOriginalLookup, raw) ==
    [i \in DOMAIN unsortedEdgeMask |->
        LET edge == raw.unsortedEdges[unsortedEdgeMask[i]]
        IN <<StoredOrZero(pointOriginalLookup, edge[1]),
             StoredOrZero(pointOriginalLookup, edge[2])>>]

EdgesFlipped(filteredEdges) ==
    [i \in DOMAIN filteredEdges |-> <<filteredEdges[i][2], filteredEdges[i][1]>>]

\* masked gather from a raw array by the mask's indices
Gather(sel, rawNum, rawArray) ==
    LET visited == MaskIndexes(sel, rawNum)
    IN [i \in DOMAIN visited |-> rawArray[visited[i]]]

\* numElements of the new view when the raw counts are only copied in
NewNumElementsCopiedFromRaw(masks, raw) == raw.numElements

\* newData.numElements: the raw entries with point and edge overwritten
NewNumElements(masks, raw) ==
    [raw.numElements EXCEPT
        !.point = MaskNum(masks.point, raw.numElements.point),
        !.edge = MaskNum(masks.edge, raw.numElements.edge)]

\* lastMasks.edge, once a pass has set it, is a view of the scratch
\* unsortedEdgeMask buffer and shows what a later pass writes there
LastMasksSeeing(masksNow, cache) ==
    IF masksNow.edgeIsScratchView
    THEN [masksNow EXCEPT !.edge =
            ListSel(Prefix(cache.unsortedEdgeMask, ALen(masksNow.edge.idx)))]
    ELSE masksNow

Settle(masks, result) == [masks |-> masks, result |-> result]

\* numeric attribute columns a device buffer can be requested for
AttributeNames == {"degree"}

\* a buffer map with no entries
EmptyMap == [name \in {} |-> 0]

MapPut(map, name, handle) ==
    [n \in DOMAIN map \cup {name} |-> IF n = name THEN handle ELSE map[n]]

\* makeEmptyData().buffers, point and edge maps
makeEmptyBuffers == [type \in GraphComponentTypes |-> EmptyMap]

\* buffers[name] is truthy
HasBuffer(map, name) == name \in DOMAIN map /\ map[name] # NoValue

\* this.data.buffers: the raw view's maps are rawdata.buffers
ViewBuffers == IF data.isRaw THEN rawdata.buffers ELSE data.buffers

\* the two early returns of Q(false)
FilterNoOp(masks) ==
    /\ pass = Idle
    /\ masks.own \/ ~SimBuffersReady(rawdata)
    /\ lastCall' = Settle(masks, "noop")
    /\ UNCHANGED <<rawdata, typedArrayCache, lastPointPositions, lastMasks, data,
                   versions, gpuCurPoints, gpuHandles, pass, passesStarted,
                   encVars, cmVars, opVars>>

\* the synchronous part of a pass, up to the Q.all of the five reads, while
\* fewer than limit passes have been started
FilterStartWithin(masks, limit) ==
    /\ pass = Idle
    /\ ~masks.own
    /\ SimBuffersReady(rawdata)
    /\ passesStarted < limit
    /\ passesStarted' = passesStarted + 1
    /\ LET numPoints == MaskNum(masks.point, rawdata.numElements.point)
           numEdges == MaskNum(masks.edge, rawdata.numElements.edge)
           cache == IF typedArrayCache = NoValue
                    THEN initializeTypedArrayCache(rawdata.numElements.point,
                                                   rawdata.numElements.edge)
                    ELSE typedArrayCache
           unsortedEdgeMask == UnsortedEdgeMask(masks, rawdata)
           pointOriginalLookup == PointOriginalLookup(masks, rawdata)
           filteredEdges == FilteredEdges(unsortedEdgeMask, pointOriginalLookup, rawdata)
           edgesFlipped == EdgesFlipped(filteredEdges)
           newCache ==
               [cache EXCEPT
                  !.unsortedEdgeMask = WritePrefix(@, unsortedEdgeMask),
                  !.filteredEdges = WritePrefix(@, filteredEdges),
                  !.edgesFlipped = WritePrefix(@, edgesFlipped),
                  !.newPointSizes = WritePrefix(@,
                       Gather(masks.point, rawdata.numElements.point, rawdata.pointSizes)),
                  !.newPointColors = WritePrefix(@,
                       Gather(masks.point, rawdata.numElements.point, rawdata.pointColors)),
                  !.newEdgeColors = WritePrefix(@,
                       Gather(masks.edge, rawdata.numElements.edge, rawdata.edgeColors)),
                  !.newEdgeHeights = WritePrefix(@,
                       Gather(masks.edge, rawdata.numElements.edge, rawdata.edgeHeights))]
       IN \E forwardsOrder \in SortedOriginals(filteredEdges),
             backwardsOrder \in SortedOriginals(edgesFlipped) :
            LET forwardsEdges == encapsulateEdges(filteredEdges, numPoints, forwardsOrder)
                backwardsEdges == encapsulateEdges(edgesFlipped, numPoints, backwardsOrder)
            IN /\ typedArrayCache' = newCache
               /\ lastMasks' = LastMasksSeeing(lastMasks, newCache)
               /\ pass' = [pc |-> "reading",
                           masks |-> masks,
                           numPoints |-> numPoints,
                           numEdges |-> numEdges,
                           forwardsEdges |-> forwardsEdges,
                           backwardsEdges |-> backwardsEdges,
                           filteredSimBuffers |-> IF data.isRaw THEN "raw" ELSE "filtered",
                           atCall |-> [data |-> data, versions |-> versions,
                                       lastMasks |-> lastMasks],
                           newData |-> [isRaw |-> FALSE,
                                        view |-> passesStarted + 1,
                                        masks |-> DataframeMask(masks.point, masks.edge),
                                        buffers |-> makeEmptyBuffers,
                                        numElements |-> NewNumElements(masks, rawdata),
                                        forwardsEdges |-> forwardsEdges,
                                        backwardsEdges |-> backwardsEdges]]
    /\ UNCHANGED <<rawdata, lastPointPositions, data, versions, gpuCurPoints,
                   gpuHandles, lastCall, encVars, cmVars, opVars>>

FilterStart(masks) == FilterStartWithin(masks, MaxPasses)

\* a failure handled inside the chain would let the call resolve
FailureSwallowed == "noop"

\* the chain has no rejection handler: the returned promise is rejected
FailureOutcome == "rejected"

\* a rejected read, createBuffer or write: the chain is abandoned
Reject ==
    /\ pass' = Idle
    /\ lastCall' = Settle(pass.masks, FailureOutcome)

\* the five reads resolve and the spread callback runs
ReadsDone ==
    /\ pass # Idle /\ pass.pc = "reading"
    /\ LET tempCurPoints == gpuCurPoints[pass.filteredSimBuffers]
           cache == [typedArrayCache EXCEPT !.tempCurPoints = tempCurPoints]
       IN /\ typedArrayCache' = cache
          /\ IF lastPointPositions = NoValue
             THEN /\ lastPointPositions' = tempCurPoints
                  /\ pass' = [pass EXCEPT !.pc = "creatingBuffer"]
             ELSE /\ lastPointPositions' =
                        LET visited == MaskIndexes(lastMasks.point, rawdata.numElements.point)
                        IN [p \in DOMAIN lastPointPositions |->
                              LET writers == {i \in DOMAIN visited : visited[i] = p}
                              IN IF writers = {} THEN lastPointPositions[p]
                                 ELSE tempCurPoints[SetMax(writers)]]
                  /\ pass' = [pass EXCEPT !.pc = "gather"]
    /\ UNCHANGED <<rawdata, lastMasks, data, versions, gpuCurPoints, gpuHandles,
                   lastCall, passesStarted, encVars, cmVars, opVars>>

ReadsFail ==
    /\ pass # Idle /\ pass.pc = "reading"
    /\ Reject
    /\ UNCHANGED <<rawdata, typedArrayCache, lastPointPositions, lastMasks, data,
                   versions, gpuCurPoints, gpuHandles, passesStarted,
                   encVars, cmVars, opVars>>

\* renderer.createBuffer / cl.createBufferGL resolve on the first pass:
\* filteredBufferCache.simulator.curPoints holds lastPointPositions
CreateBufferDone ==
    /\ pass # Idle /\ pass.pc = "creatingBuffer"
    /\ gpuCurPoints' = [gpuCurPoints EXCEPT !.filtered = lastPointPositions]
    /\ pass' = [pass EXCEPT !.pc = "gather"]
    /\ UNCHANGED <<rawdata, typedArrayCache, lastPointPositions, lastMasks, data,
                   versions, gpuHandles, lastCall, passesStarted,
                   encVars, cmVars, opVars>>

CreateBufferFail ==
    /\ pass # Idle /\ pass.pc = "creatingBuffer"
    /\ Reject
    /\ UNCHANGED <<rawdata, typedArrayCache, lastPointPositions, lastMasks, data,
                   versions, gpuCurPoints, gpuHandles, passesStarted,
                   encVars, cmVars, opVars>>

\* second continuation when filteredBufferCache.simulator.curPoints was never
\* created (an earlier first pass was rejected after it had set
\* lastPointPositions): newBuffers.curPoints.write throws inside the callback
GatherThrows ==
    /\ pass # Idle /\ pass.pc = "gather"
    /\ gpuCurPoints.filtered = NoValue
    /\ typedArrayCache' =
          [typedArrayCache EXCEPT !.newCurPoints = WritePrefix(@,
              Gather(pass.masks.point, rawdata.numElements.point, lastPointPositions))]
    /\ Reject
    /\ UNCHANGED <<rawdata, lastPointPositions, lastMasks, data, versions,
                   gpuCurPoints, gpuHandles, passesStarted,
                   encVars, cmVars, opVars>>

\* second continuation: gather the simulator values and issue the writes
GatherAndWrite ==
    /\ pass # Idle /\ pass.pc = "gather"
    /\ gpuCurPoints.filtered # NoValue
    /\ typedArrayCache' =
          [typedArrayCache EXCEPT !.newCurPoints = WritePrefix(@,
              Gather(pass.masks.point, rawdata.numElements.point, lastPointPositions))]
    /\ pass' = [pass EXCEPT !.pc = "writing"]
    /\ UNCHANGED <<rawdata, lastPointPositions, lastMasks, data, versions,
                   gpuCurPoints, gpuHandles, lastCall, passesStarted,
                   encVars, cmVars, opVars>>

\* what the device curPoints buffer holds after newCurPoints is written
CurPointsWritten ==
    [gpuCurPoints EXCEPT !.filtered =
        WritePrefix(@, Prefix(typedArrayCache.newCurPoints, pass.numPoints))]

\* the buffer maps of a view after the release loop: for every point and
\* edge name, promises.push(buffers.delete); delete buffers[name]
ReleasedBuffers(buffers) == [type \in DOMAIN buffers |-> EmptyMap]

\* the writes resolve and the third continuation (buffer release) runs on
\* that.data.buffers, which is rawdata.buffers while the raw view is current.
\* The loop pushes the property buffers.delete and calls no handle's delete().
WritesDone ==
    /\ pass # Idle /\ pass.pc = "writing"
    /\ gpuCurPoints' = CurPointsWritten
    /\ IF data.isRaw
       THEN /\ rawdata' = [rawdata EXCEPT !.buffers = ReleasedBuffers(@)]
            /\ UNCHANGED data
       ELSE /\ data' = [data EXCEPT !.buffers = ReleasedBuffers(@)]
            /\ UNCHANGED rawdata
    /\ pass' = [pass EXCEPT !.pc = "released"]
    /\ UNCHANGED <<typedArrayCache, lastPointPositions, lastMasks,
                   versions, gpuHandles, lastCall, passesStarted,
                   encVars, cmVars, opVars>>

\* one of the writes is rejected; the curPoints write may have landed
WritesFail ==
    /\ pass # Idle /\ pass.pc = "writing"
    /\ gpuCurPoints' \in {gpuCurPoints, CurPointsWritten}
    /\ Reject
    /\ UNCHANGED <<rawdata, typedArrayCache, lastPointPositions, lastMasks, data,
                   versions, gpuHandles, passesStarted,
                   encVars, cmVars, opVars>>

\* versions with every buffer counter and the tick left as they are
BumpedVersionsTickOnly(v) == [v EXCEPT !.tick = @ + 1]

\* simulator.versions.buffers[key] += 1 for every key; simulator.versions.tick++
BumpedVersions(v) ==
    [buffers |-> [key \in DOMAIN v.buffers |-> v.buffers[key] + 1],
     tick |-> v.tick + 1]

\* fourth continuation: bump the versions, record the unsorted mask
BumpVersions ==
    /\ pass # Idle /\ pass.pc = "released"
    /\ versions' = BumpedVersions(versions)
    /\ lastMasks' = [point |-> pass.masks.point,
                     edge |-> ListSel(Prefix(typedArrayCache.unsortedEdgeMask,
                                             pass.numEdges)),
                     edgeIsScratchView |-> TRUE]
    /\ pass' = [pass EXCEPT !.pc = "bumped"]
    /\ UNCHANGED <<rawdata, typedArrayCache, lastPointPositions, data,
                   gpuCurPoints, gpuHandles, lastCall, passesStarted,
                   encVars, cmVars, opVars>>

\* fifth continuation: that.data = newData
InstallData ==
    /\ pass # Idle /\ pass.pc = "bumped"
    /\ data' = pass.newData
    /\ pass' = Idle
    /\ lastCall' = Settle(pass.masks, "filtered")
    /\ UNCHANGED <<rawdata, typedArrayCache, lastPointPositions, lastMasks,
                   versions, gpuCurPoints, gpuHandles, passesStarted,
                   encVars, cmVars, opVars>>

\* loadBuffer(name, 'simulator', buffer) by the simulator, in its own turn
LoadBuffer(name) ==
    /\ name \notin rawdata.simulatorBuffers
    /\ rawdata' = [rawdata EXCEPT !.simulatorBuffers = @ \cup {name}]
    /\ UNCHANGED <<typedArrayCache, lastPointPositions, lastMasks, data, versions,
                   gpuCurPoints, gpuHandles, pass, lastCall, passesStarted,
                   encVars, cmVars, opVars>>

\* deleteBuffer(name): delete() on the raw handles of that name, entry := null
DeleteBuffer(name) ==
    /\ \E type \in GraphComponentTypes : HasBuffer(rawdata.buffers[type], name)
    /\ gpuHandles' =
          [id \in DOMAIN gpuHandles |->
              IF \E type \in GraphComponentTypes :
                    /\ name \in DOMAIN rawdata.buffers[type]
                    /\ rawdata.buffers[type][name] = [handle |-> id]
              THEN [gpuHandles[id] EXCEPT !.deleted = TRUE]
              ELSE gpuHandles[id]]
    /\ rawdata' = [rawdata EXCEPT !.buffers =
          [type \in DOMAIN @ |->
              [n \in DOMAIN @[type] |-> IF n = name THEN NoValue ELSE @[type][n]]]]
    /\ UNCHANGED <<typedArrayCache, lastPointPositions, lastMasks, data, versions,
                   gpuCurPoints, pass, lastCall, passesStarted,
                   encVars, cmVars, opVars>>

\* getBuffer(name, type) for a point or edge attribute not yet on the device:
\* cl.createBuffer resolves and the handle is stored in the buffer map of the
\* view that is current
GetBuffer(name, type) ==
    /\ ~HasBuffer(ViewBuffers[type], name)
    /\ ALen(gpuHandles) < MaxHandles
    /\ LET id == ALen(gpuHandles)
           stored == [ViewBuffers EXCEPT ![type] = MapPut(@, name, [handle |-> id])]
       IN /\ gpuHandles' = Push(gpuHandles, [type |-> type, name |-> name,
                                              view |-> data.view, deleted |-> FALSE])
          /\ IF data.isRaw
             THEN /\ rawdata' = [rawdata EXCEPT !.buffers = stored]
                  /\ UNCHANGED data
             ELSE /\ data' = [data EXCEPT !.buffers = stored]
                  /\ UNCHANGED rawdata
    /\ UNCHANGED <<typedArrayCache, lastPointPositions, lastMasks, versions,
                   gpuCurPoints, pass, lastCall, passesStarted,
                   encVars, cmVars, opVars>>

----------------------------------------------------------------------------
(* Specification of the Filter Engine: a loaded dataframe of FNumPoints    *)
(* points whose filter calls are issued one at a time.                     *)

VersionedBuffers == {"curPoints", "springsPos"}
WeightBuffers == {"forwardsEdgeWeights", "backwardsEdgeWeights"}

\* unsorted edge lists the dataframe is loaded with
RawEdgeArrays ==
    {edges \in [Indices(FNumEdges) -> Indices(FNumPoints) \X Indices(FNumPoints)] :
        \A k \in Indices(FNumEdges) : edges[k][1] = (FNumEdges - 1 - k) % FNumPoints}

\* rawdata after load: counts, edge lists with both encapsulations, local
\* buffers (edge-indexed ones in sorted order, see loadLocalBuffer), and the
\* simulator buffers loaded so far
LoadedRawDataOf(edges, numPoints, forwardsOrder, backwardsOrder) ==
    LET forwardsEdges == encapsulateEdges(edges, numPoints, forwardsOrder)
        backwardsEdges == encapsulateEdges(EdgesFlipped(edges), numPoints, backwardsOrder)
        permutation == forwardsEdges.edgePermutationInverseTyped
    IN [numElements |-> [point |-> numPoints, edge |-> ALen(edges)],
        unsortedEdges |-> edges,
        forwardsEdges |-> forwardsEdges,
        backwardsEdges |-> backwardsEdges,
        pointSizes |-> [p \in Indices(numPoints) |-> p + 1],
        pointColors |-> [p \in Indices(numPoints) |-> p + 1],
        edgeColors |-> [e \in DOMAIN edges |-> permutation[e] + 1],
        edgeHeights |-> [e \in DOMAIN edges |-> permutation[e] + 1],
        simulatorBuffers |-> {},
        buffers |-> makeEmptyBuffers]

LoadedRawData(edges, forwardsOrder, backwardsOrder) ==
    LoadedRawDataOf(edges, FNumPoints, forwardsOrder, backwardsOrder)

\* masks a caller may pass: its own objects, or the dataframe's lastMasks
CallerMasks ==
    [own : {FALSE},
     point : Selections(rawdata.numElements.point),
     edge : Selections(rawdata.numElements.edge)]
OwnLastMasks == [own |-> TRUE, point |-> lastMasks.point, edge |-> lastMasks.edge]

Init ==
    /\ \E edges \in RawEdgeArrays :
         \E forwardsOrder \in SortedOriginals(edges),
            backwardsOrder \in SortedOriginals(EdgesFlipped(edges)) :
            rawdata = LoadedRawData(edges, forwardsOrder, backwardsOrder)
    /\ typedArrayCache = NoValue
    /\ lastPointPositions = NoValue
    /\ lastMasks = [point |-> FullSel, edge |-> FullSel, edgeIsScratchView |-> FALSE]
    /\ data = [isRaw |-> TRUE, view |-> 0]
    /\ versions = [buffers |-> [key \in VersionedBuffers |-> 0], tick |-> 0]
    /\ gpuCurPoints = [raw |-> [p \in Indices(FNumPoints) |-> p + 1], filtered |-> NoValue]
    /\ gpuHandles = EmptyArr
    /\ pass = Idle
    /\ passesStarted = 0
    /\ lastCall = Settle(NoValue, "none")
    /\ encIn = NoValue /\ encOut = NoValue
    /\ cmArgs = NoValue /\ cmHeap = NoValue /\ cmOut = NoValue
    /\ OpUnused

Next ==
    \/ \E masks \in CallerMasks \cup {OwnLastMasks} : FilterNoOp(masks)
    \/ \E masks \in CallerMasks : FilterStart(masks)
    \/ ReadsDone
    \/ ReadsFail
    \/ CreateBufferDone
    \/ CreateBufferFail
    \/ GatherThrows
    \/ GatherAndWrite
    \/ WritesDone
    \/ WritesFail
    \/ BumpVersions
    \/ InstallData
    \/ \E name \in WeightBuffers : LoadBuffer(name)
    \/ \E name \in AttributeNames, type \in GraphComponentTypes : GetBuffer(name, type)
    \/ \E name \in AttributeNames : DeleteBuffer(name)

Spec == Init /\ [][Next]_vars

----------------------------------------------------------------------------
(* Specification of the position baseline: the same dataframe with its     *)
(* weight buffers loaded, followed over PosPasses filter passes.           *)

PosInit ==
    /\ \E edges \in RawEdgeArrays :
         \E forwardsOrder \in SortedOriginals(edges),
            backwardsOrder \in SortedOriginals(EdgesFlipped(edges)) :
            rawdata = [LoadedRawData(edges, forwardsOrder, backwardsOrder)
                          EXCEPT !.simulatorBuffers = WeightBuffers]
    /\ typedArrayCache = NoValue
    /\ lastPointPositions = NoValue
    /\ lastMasks = [point |-> FullSel, edge |-> FullSel, edgeIsScratchView |-> FALSE]
    /\ data = [isRaw |-> TRUE, view |-> 0]
    /\ versions = [buffers |-> [key \in VersionedBuffers |-> 0], tick |-> 0]
    /\ gpuCurPoints = [raw |-> [p \in Indices(FNumPoints) |-> p + 1], filtered |-> NoValue]
    /\ gpuHandles = EmptyArr
    /\ pass = Idle
    /\ passesStarted = 0
    /\ lastCall = Settle(NoValue, "none")
    /\ encIn = NoValue /\ encOut = NoValue
    /\ cmArgs = NoValue /\ cmHeap = NoValue /\ cmOut = NoValue
    /\ OpUnused

PosNext ==
    \/ \E masks \in CallerMasks : FilterStartWithin(masks, PosPasses)
    \/ ReadsDone
    \/ ReadsFail
    \/ CreateBufferDone
    \/ CreateBufferFail
    \/ GatherThrows
    \/ GatherAndWrite
    \/ WritesDone
    \/ WritesFail
    \/ BumpVersions
    \/ InstallData

PosSpec == PosInit /\ [][PosNext]_vars

(* Specification of one pass over a dataframe of OrdNumPoints points and   *)
(* OrdNumEdges edges, any unsorted edge list, in which every read,         *)
(* createBuffer and write resolves.                                        *)

OrdInit ==
    /\ \E edges \in [Indices(OrdNumEdges) -> Indices(OrdNumPoints) \X Indices(OrdNumPoints)] :
         \E forwardsOrder \in SortedOriginals(edges),
            backwardsOrder \in SortedOriginals(EdgesFlipped(edges)) :
            rawdata = [LoadedRawDataOf(edges, OrdNumPoints, forwardsOrder, backwardsOrder)
                          EXCEPT !.simulatorBuffers = WeightBuffers]
    /\ typedArrayCache = NoValue
    /\ lastPointPositions = NoValue
    /\ lastMasks = [point |-> FullSel, edge |-> FullSel, edgeIsScratchView |-> FALSE]
    /\ data = [isRaw |-> TRUE, view |-> 0]
    /\ versions = [buffers |-> [key \in VersionedBuffers |-> 0], tick |-> 0]
    /\ gpuCurPoints = [raw |-> [p \in Indices(OrdNumPoints) |-> p + 1], filtered |-> NoValue]
    /\ gpuHandles = EmptyArr
    /\ pass = Idle
    /\ passesStarted = 0
    /\ lastCall = Settle(NoValue, "none")
    /\ encIn = NoValue /\ encOut = NoValue
    /\ cmArgs = NoValue /\ cmHeap = NoValue /\ cmOut = NoValue
    /\ OpUnused

OrdNext ==
    \/ \E masks \in CallerMasks : FilterStartWithin(masks, 1)
    \/ ReadsDone
    \/ CreateBufferDone
    \/ GatherAndWrite
    \/ WritesDone
    \/ BumpVersions
    \/ InstallData

OrdSpec == OrdInit /\ [][OrdNext]_vars

----------------------------------------------------------------------------
(* Specification of the Edge Canonicalizer: encapsulateEdges applied to   *)
(* every edge pair array within the bounds.                                *)

PointIds == Indices(MaxPoints)
EdgePairs == PointIds \X PointIds
EdgeArrays == UNION {[Indices(n) -> EdgePairs] : n \in 0..MaxEdges}

EncInit ==
    /\ encIn \in [edges : EdgeArrays, numPoints : 0..MaxPoints]
    /\ encOut = NoValue
    /\ cmArgs = NoValue /\ cmHeap = NoValue /\ cmOut = NoValue
    /\ DfUnused /\ OpUnused

EncapsulateEdges ==
    /\ encOut = NoValue
    /\ \E mapped \in SortedOriginals(encIn.edges) :
          encOut' = encapsulateEdges(encIn.edges, encIn.numPoints, mapped)
    /\ UNCHANGED <<encIn, cmVars, dfVars, opVars>>

EncNext == EncapsulateEdges

EncSpec == EncInit /\ [][EncNext]_vars

----------------------------------------------------------------------------
(* Specification of the Mask Composer: composeMasks applied to selection   *)
(* and exclusion lists over a dataframe of CmNumPoints points and          *)
(* CmNumEdges edges.                                                       *)

cmRawNum == [point |-> CmNumPoints, edge |-> CmNumEdges]

\* masks that restrict one component type
CmMasks ==
    {DataframeMask(sel, FullSel) : sel \in Selections(CmNumPoints)}
        \cup {DataframeMask(FullSel, sel) : sel \in Selections(CmNumEdges)}

MaskArrays(maxLen) == UNION {[Indices(n) -> CmMasks] : n \in 0..maxLen}

\* a list followed by n full masks
Padded(head, n) ==
    [k \in Indices(ALen(head) + n) |->
        IF k < ALen(head) THEN head[k] ELSE fullDataframeMask]

LimitValues == {NoValue} \cup {Finite(n) : n \in 0..MaxLimit}
LimitObjects == {NoValue} \cup [point : LimitValues, edge : LimitValues]

\* Calls with up to MaxSelection selection masks under every limits object,
\* and calls whose selection list is brought to the neighbourhood of
\* MASK_LIMIT by MASK_LIMIT - 1 further full masks.
CmInit ==
    /\ \E head \in MaskArrays(MaxSelection) :
          \/ cmArgs \in [selectionMasks : {head},
                         exclusionMasks : MaskArrays(MaxExclusion),
                         limits : LimitObjects]
          \/ cmArgs \in [selectionMasks : {Padded(head, MASK_LIMIT - 1)},
                         exclusionMasks : MaskArrays(MaxExclusion),
                         limits : {NoValue, [point |-> NoValue, edge |-> NoValue]}]
    /\ cmHeap = [selectionMasks |-> cmArgs.selectionMasks, limits |-> cmArgs.limits]
    /\ cmOut = NoValue
    /\ encIn = NoValue /\ encOut = NoValue
    /\ DfUnused /\ OpUnused

ComposeMasks ==
    /\ cmOut = NoValue
    /\ LET r == composeMasks(cmHeap.selectionMasks, cmArgs.exclusionMasks,
                             cmHeap.limits, cmRawNum)
       IN /\ cmOut' = r.result
          /\ cmHeap' = [selectionMasks |-> r.selectionMasks, limits |-> r.limits]
    /\ UNCHANGED <<cmArgs, encVars, dfVars, opVars>>

CmNext == ComposeMasks

ComposeSpec == CmInit /\ [][CmNext]_vars

----------------------------------------------------------------------------
(* Properties of the Mask Composer *)

CmDone == cmOut # NoValue
Members(sel, rawNum) ==
    LET visited == MaskIndexes(sel, rawNum) IN {visited[k] : k \in DOMAIN visited}

\* indices of a type that are in every mask of S and in no mask of E
Qualifying(S, E, type) ==
    {i \in Indices(cmRawNum[type]) :
        /\ \A k \in DOMAIN S : i \in Members(S[k][type], cmRawNum[type])
        /\ \A k \in DOMAIN E : i \notin Members(E[k][type], cmRawNum[type])}

cmLimitOf(type) == DefaultLimits(cmArgs.limits)[type]
cmNoLimits == \A type \in GraphComponentTypes : ~cmLimitOf(type).finite

\* C8: with at most 255 selection masks and no limits the result is, per
\* type, the ascending duplicate-free list of the indices in every selection
\* mask (an empty selection list counting as one full mask) and in no
\* exclusion mask.
C8_ComposeIsIntersectionMinusExclusions ==
    (CmDone /\ ALen(cmArgs.selectionMasks) <= MASK_LIMIT /\ cmNoLimits) =>
        \A type \in GraphComponentTypes :
            /\ ~cmOut[type].full
            /\ cmOut[type].idx =
                  Ascending(Qualifying(cmArgs.selectionMasks, cmArgs.exclusionMasks, type))

C8_Witness ==
    /\ CmDone /\ cmNoLimits
    /\ ALen(cmArgs.selectionMasks) = 2
    /\ cmArgs.selectionMasks[0].point = ListSel(Ascending({0, 1}))
    /\ cmArgs.selectionMasks[1].point = ListSel(Ascending({1, 2}))
    /\ ALen(cmArgs.exclusionMasks) = 0
    /\ cmOut.point = ListSel(Ascending({1}))

C8_WitnessEmptySelection ==
    /\ CmDone /\ cmArgs.limits # NoValue /\ cmNoLimits
    /\ ALen(cmArgs.selectionMasks) = 0 /\ ALen(cmArgs.exclusionMasks) = 0
    /\ cmOut.point.idx = Ascending(Indices(CmNumPoints))
    /\ cmOut.edge.idx = Ascending(Indices(CmNumEdges))

C8_WitnessMaskLimit ==
    /\ CmDone /\ cmNoLimits
    /\ ALen(cmArgs.selectionMasks) = MASK_LIMIT
    /\ ALen(cmArgs.exclusionMasks) = 1
    /\ ALen(cmOut.point.idx) = 1

\* C9: a type with limit L (0 included) gets at most L entries, the first
\* min(L, number of qualifying indices) qualifying indices in ascending
\* order; a type without a limit gets them all.
C9_LimitBoundsResult ==
    (CmDone /\ ALen(cmArgs.selectionMasks) <= MASK_LIMIT) =>
        \A type \in GraphComponentTypes :
            LET all == Ascending(Qualifying(cmArgs.selectionMasks,
                                            cmArgs.exclusionMasks, type))
            IN IF cmLimitOf(type).finite
               THEN /\ ALen(cmOut[type].idx) <= cmLimitOf(type).n
                    /\ cmOut[type].idx = Prefix(all, cmLimitOf(type).n)
               ELSE cmOut[type].idx = all

\* C10: more than 255 selection masks give the composition of the first 255.
C10_ExcessMasksDropped ==
    (CmDone /\ ALen(cmArgs.selectionMasks) > MASK_LIMIT /\ cmNoLimits) =>
        \A type \in GraphComponentTypes :
            cmOut[type].idx =
                Ascending(Qualifying(Prefix(cmArgs.selectionMasks, MASK_LIMIT),
                                     cmArgs.exclusionMasks, type))

\* C11: composeMasks leaves its inputs as they were: the selectionMasks array
\* (length and elements) and the limits object are the same after the call as
\* before, for more than 255 selection masks and for a limits object with
\* missing keys as well.
C11_InputsUnchanged ==
    CmDone =>
        /\ cmHeap.selectionMasks = cmArgs.selectionMasks
        /\ cmHeap.limits = cmArgs.limits

----------------------------------------------------------------------------
(* Properties of the Edge Canonicalizer *)

encNumEdges == ALen(encIn.edges)
EncDone == encOut # NoValue
InRange(edges, numPoints) ==
    \A k \in DOMAIN edges : edges[k][1] < numPoints /\ edges[k][2] < numPoints
HasDuplicateEdge(edges) ==
    \E a, b \in DOMAIN edges : a # b /\ edges[a] = edges[b]
HasSelfEdge(edges) == \E a \in DOMAIN edges : edges[a][1] = edges[a][2]
OutEdges(edges, p) == {k \in DOMAIN edges : edges[k][1] = p}

RECURSIVE SumOver(_, _)
SumOver(f, S) ==
    IF S = {} THEN 0
    ELSE LET x == CHOOSE y \in S : TRUE IN f[x] + SumOver(f, S \ {x})

\* C4: edgePermutation and edgePermutationInverseTyped are permutations of
\* 0..numEdges-1 and mutual inverses, duplicate and self edges included.
C4_PermutationsMutualInverses ==
    EncDone =>
        /\ DOMAIN encOut.edgePermutation = Indices(encNumEdges)
        /\ DOMAIN encOut.edgePermutationInverseTyped = Indices(encNumEdges)
        /\ \A i \in Indices(encNumEdges) :
              /\ encOut.edgePermutation[i] \in Indices(encNumEdges)
              /\ encOut.edgePermutationInverseTyped[i] \in Indices(encNumEdges)
              /\ encOut.edgePermutation[encOut.edgePermutationInverseTyped[i]] = i
              /\ encOut.edgePermutationInverseTyped[encOut.edgePermutation[i]] = i

C4_Witness ==
    /\ EncDone
    /\ HasDuplicateEdge(encIn.edges)
    /\ HasSelfEdge(encIn.edges)
    /\ \E i \in Indices(encNumEdges) : encOut.edgePermutation[i] # i

\* C5: when every endpoint is below numPoints, degreesTyped[p] is the number
\* of input edges whose first endpoint is p, and the degrees sum to the
\* number of edges.
C5_DegreesCountOutEdges ==
    (EncDone /\ InRange(encIn.edges, encIn.numPoints)) =>
        /\ \A p \in Indices(encIn.numPoints) :
              encOut.degreesTyped[p] = Cardinality(OutEdges(encIn.edges, p))
        /\ SumOver(encOut.degreesTyped, Indices(encIn.numPoints)) = encNumEdges

C5_Witness ==
    /\ EncDone
    /\ InRange(encIn.edges, encIn.numPoints)
    /\ encNumEdges = MaxEdges
    /\ \E p, q \in Indices(encIn.numPoints) :
          encOut.degreesTyped[p] >= 2 /\ encOut.degreesTyped[q] = 0

\* C6: edgesTyped is in ascending (source, destination) order and its pair k
\* is input pair edgePermutationInverseTyped[k], the inverse table being a
\* bijection on 0..numEdges-1, so no edge is dropped or merged.
C6_SortedPermutationOfInput ==
    EncDone =>
        /\ DOMAIN encOut.edgesTyped = Indices(encNumEdges)
        /\ \A k \in Indices(encNumEdges) :
              encOut.edgesTyped[k] = encIn.edges[encOut.edgePermutationInverseTyped[k]]
        /\ \A v \in Indices(encNumEdges) :
              Cardinality({k \in Indices(encNumEdges) :
                              encOut.edgePermutationInverseTyped[k] = v}) = 1
        /\ \A k \in Indices(encNumEdges - 1) :
              \/ encOut.edgesTyped[k][1] < encOut.edgesTyped[k + 1][1]
              \/ /\ encOut.edgesTyped[k][1] = encOut.edgesTyped[k + 1][1]
                 /\ encOut.edgesTyped[k][2] <= encOut.edgesTyped[k + 1][2]

C6_Witness ==
    /\ EncDone
    /\ HasDuplicateEdge(encIn.edges)
    /\ HasSelfEdge(encIn.edges)
    /\ \E k \in Indices(encNumEdges - 1) :
          /\ encIn.edges[k][1] = encIn.edges[k + 1][1]
          /\ encIn.edges[k][2] > encIn.edges[k + 1][2]

\* C7: work item p is (offset of p's first edge in the sorted array, number
\* of edges with source p, p) when p has an outgoing edge, and (-1, 0, p)
\* when it has none.
C7_WorkItemsPerPoint ==
    EncDone =>
        \A p \in Indices(encIn.numPoints) :
            LET mine == OutEdges(encOut.edgesTyped, p)
                item == encOut.workItemsTyped[p]
            IN IF mine = {}
               THEN item[1] = -1 /\ item[2] = 0 /\ item[3] = p
               ELSE /\ item[1] \in mine
                    /\ \A k \in mine : item[1] <= k
                    /\ item[2] = Cardinality(mine)
                    /\ item[3] = p

C7_Witness ==
    /\ EncDone
    /\ encIn.numPoints = MaxPoints
    /\ \E p, q \in Indices(encIn.numPoints) :
          /\ p < q
          /\ encOut.workItemsTyped[p] = <<-1, 0, p, 0>>
          /\ encOut.workItemsTyped[q][1] > 0
          /\ encOut.workItemsTyped[q][2] >= 2

C7_WitnessEmpty ==
    /\ EncDone
    /\ encNumEdges = 0
    /\ encIn.numPoints = MaxPoints
    /\ \A p \in Indices(encIn.numPoints) : encOut.workItemsTyped[p] = <<-1, 0, p, 0>>

\* for every point p with an outgoing edge, edgeStartEndIdxsTyped[p] is
\* (start, end): start is the offset of p's first sorted edge and end is the
\* start of the next higher point that has edges, or the number of edges when
\* there is none; end - start is degreesTyped[p].
StartEndBracketsOwnEdges ==
        \A p \in Indices(encIn.numPoints) :
            LET mine == OutEdges(encOut.edgesTyped, p)
                higher == {q \in Indices(encIn.numPoints) :
                              q > p /\ OutEdges(encOut.edgesTyped, q) # {}}
                next == CHOOSE q \in higher : \A r \in higher : q <= r
                startEnd == encOut.edgeStartEndIdxsTyped[p]
            IN mine # {} =>
                /\ startEnd[1] \in mine /\ \A k \in mine : startEnd[1] <= k
                /\ startEnd[2] = IF higher = {} THEN encNumEdges
                                 ELSE encOut.edgeStartEndIdxsTyped[next][1]
                /\ startEnd[2] - startEnd[1] = encOut.degreesTyped[p]

\* C24 as stated: for every encapsulation
C24_StartEndBracketsOwnEdges_AsStated == EncDone => StartEndBracketsOwnEdges

\* C24 amended: for every encapsulation whose endpoints are all below
\* numPoints, the start and end of every point with an outgoing edge bracket
\* exactly its own edges.
C24_StartEndBracketsOwnEdges ==
    (EncDone /\ InRange(encIn.edges, encIn.numPoints)) => StartEndBracketsOwnEdges

\* a point with edges, then a point without, then the last point with edges
C24_Witness ==
    /\ EncDone
    /\ InRange(encIn.edges, encIn.numPoints)
    /\ encIn.numPoints = 3 /\ encNumEdges = 3
    /\ encOut.degreesTyped = (0 :> 2 @@ 1 :> 0 @@ 2 :> 1)
    /\ encOut.edgeStartEndIdxsTyped[0] = <<0, 2>>
    /\ encOut.edgeStartEndIdxsTyped[2] = <<2, 3>>

\* the last point has no edge and the end falls back to the edge count
C24_WitnessLastEmpty ==
    /\ EncDone
    /\ InRange(encIn.edges, encIn.numPoints)
    /\ encIn.numPoints = 3
    /\ encOut.degreesTyped = (0 :> 0 @@ 1 :> 3 @@ 2 :> 0)
    /\ encOut.edgeStartEndIdxsTyped[1] = <<0, 3>>

----------------------------------------------------------------------------
(* Properties of the Filter Engine *)

\* this step is a call of applyDataframeMaskToFilterInPlace(masks): it either
\* starts a pass or settles at once as a no-op
CallWith(masks) ==
    /\ pass = Idle
    /\ \/ pass' # Idle /\ pass'.masks = masks
       \/ pass' = Idle /\ lastCall' = Settle(masks, "noop")

\* C1: once a pass with mask M has completed, calling again with the same M
\* (no other filter in between) returns the no-op result at once, issues no
\* buffer reads or writes and leaves every version counter and the tick
\* unchanged.
C1_RepeatedMaskIsNoOp ==
    [][(lastCall.result = "filtered" /\ CallWith(lastCall.masks)) =>
            /\ pass' = Idle
            /\ lastCall'.result = "noop"
            /\ versions' = versions
            /\ gpuCurPoints' = gpuCurPoints
            /\ typedArrayCache' = typedArrayCache]_vars

\* C2: after a completed pass with mask M the view's point and edge counts
\* are M.numPoints() and M.numEdges(); for the full mask they are the raw
\* counts.
C2_CountsMatchMask ==
    lastCall.result = "filtered" =>
        /\ ~data.isRaw
        /\ data.numElements.point =
              MaskNum(lastCall.masks.point, rawdata.numElements.point)
        /\ data.numElements.edge =
              MaskNum(lastCall.masks.edge, rawdata.numElements.edge)
        /\ (lastCall.masks.point.full /\ lastCall.masks.edge.full) =>
              /\ data.numElements.point = rawdata.numElements.point
              /\ data.numElements.edge = rawdata.numElements.edge

C2_Witness ==
    /\ lastCall.result = "filtered"
    /\ lastCall.masks.point.full /\ lastCall.masks.edge.full
    /\ passesStarted = MaxPasses
    /\ data.numElements.point = rawdata.numElements.point

C2_WitnessRestricted ==
    /\ lastCall.result = "filtered"
    /\ data.numElements.point < rawdata.numElements.point
    /\ data.numElements.edge < rawdata.numElements.edge

\* C3: a call made while forwardsEdgeWeights or backwardsEdgeWeights is
\* undefined settles as a no-op (not a rejection) and leaves data, lastMasks,
\* lastPointPositions, the scratch caches and the version counters unchanged.
C3_NotReadyIsNoOp ==
    [][(/\ pass = Idle
        /\ ~(WeightBuffers \subseteq rawdata.simulatorBuffers)
        /\ (pass' # pass \/ lastCall' # lastCall)) =>
            /\ pass' = Idle
            /\ lastCall'.result = "noop"
            /\ UNCHANGED <<data, lastMasks, lastPointPositions, typedArrayCache,
                           versions>>]_vars

C3_Witness ==
    /\ lastCall.result = "noop"
    /\ ~lastCall.masks.own
    /\ rawdata.simulatorBuffers = {"forwardsEdgeWeights"}
    /\ data.isRaw /\ typedArrayCache = NoValue /\ versions.tick = 0

\* this step settles the pass in progress
PassSettles == pass # Idle /\ pass' = Idle

\* C18: the buffer version counters and the tick never decrease; a pass that
\* completes successfully leaves every buffer counter and the tick exactly
\* one above their values at the call; a no-op call or a failed pass leaves
\* all of them as they were at the call.
C18_VersionsBumpOncePerCompletedPass ==
    [][/\ versions'.tick >= versions.tick
       /\ \A key \in VersionedBuffers :
             versions'.buffers[key] >= versions.buffers[key]
       /\ (PassSettles /\ lastCall'.result = "filtered") =>
             /\ versions'.tick = pass.atCall.versions.tick + 1
             /\ \A key \in VersionedBuffers :
                   versions'.buffers[key] = pass.atCall.versions.buffers[key] + 1
       /\ (PassSettles /\ lastCall'.result # "filtered") =>
             versions' = pass.atCall.versions
       /\ (pass = Idle /\ pass' = Idle) => versions' = versions]_vars

C18_Witness ==
    /\ lastCall.result = "filtered"
    /\ passesStarted = 2
    /\ versions.tick = 2
    /\ \A key \in VersionedBuffers : versions.buffers[key] = 2

C18_WitnessAfterFailure ==
    /\ lastCall.result = "rejected"
    /\ passesStarted = 2
    /\ versions.tick = 1
    /\ \A key \in VersionedBuffers : versions.buffers[key] = 1

\* C19: no point or edge buffer handle of a replaced view remains undeleted:
\* every handle created for a view that is no longer the current one has had
\* delete() invoked on it.
C19_ReplacedViewHandlesDeleted ==
    \A id \in DOMAIN gpuHandles :
        gpuHandles[id].view # data.view => gpuHandles[id].deleted

\* the fields of lastMasks refer to the same arrays
SameMaskArrays(a, b) ==
    /\ a.point = b.point
    /\ a.edgeIsScratchView = b.edgeIsScratchView
    /\ a.edge.full = b.edge.full
    /\ ALen(a.edge.idx) = ALen(b.edge.idx)

C20_WitnessFiltered ==
    /\ lastCall.result = "rejected"
    /\ passesStarted = 2
    /\ ~data.isRaw /\ data.view = 1
    /\ versions.tick = 1

\* this step belongs to a filter call: it starts, continues or settles a pass
PassStep == pass' # pass \/ (lastCall' # lastCall)

\* C21: a filter pass never modifies rawdata: across every step of a pass,
\* the first pass included, rawdata (its counts, edge lists, local buffers
\* and its point, edge and simulator buffer maps) is what it was before.
C21_PassLeavesRawdata ==
    [][PassStep => rawdata' = rawdata]_vars

\* the spread callback has just run
BaselineUpdated ==
    pass # Idle /\ pass.pc = "reading" /\ pass' # Idle /\ pass'.pc # "reading"

\* the writes have just resolved
PositionsWritten == pass # Idle /\ pass.pc = "writing" /\ pass' # Idle /\ pass'.pc = "released"

\* raw indices of the points of the current view, by local position
ViewPoints ==
    IF data.isRaw THEN MaskIndexes(FullSel, rawdata.numElements.point)
    ELSE MaskIndexes(data.masks.point, rawdata.numElements.point)

\* the position the simulation holds for raw point p (points are not moved)
OwnPosition(p) == gpuCurPoints.raw[p]

\* slot i of the curPoints buffer of the current view
ReadBack(i) == gpuCurPoints[IF data.isRaw THEN "raw" ELSE "filtered"][i]

\* C22: the baseline is snapshotted from the current positions on the first
\* pass; on every later pass the entry of each point of the view being
\* replaced is overwritten with that point's own read-back position and
\* every other entry is left unchanged; the positions written for the new
\* view are, for mask point i, the baseline entry of its raw index.
C22_BaselineFollowsView ==
    [][/\ BaselineUpdated =>
            IF lastPointPositions = NoValue
            THEN lastPointPositions' = [p \in Indices(FNumPoints) |-> ReadBack(p)]
            ELSE \A p \in Indices(FNumPoints) :
                    IF \E i \in DOMAIN ViewPoints : ViewPoints[i] = p
                    THEN /\ \E i \in DOMAIN ViewPoints :
                              /\ ViewPoints[i] = p
                              /\ lastPointPositions'[p] = ReadBack(i)
                         /\ lastPointPositions'[p] = OwnPosition(p)
                    ELSE lastPointPositions'[p] = lastPointPositions[p]
       /\ PositionsWritten =>
            \A i \in Indices(pass.numPoints) :
                gpuCurPoints'.filtered[i] =
                    lastPointPositions[MaskIndexes(pass.masks.point, FNumPoints)[i]]
      ]_vars

\* the typed arrays of the current filtered view: each is a view of the
\* first numElements slots of a scratch buffer of typedArrayCache
ViewArrays ==
    [unsortedEdges |-> Prefix(typedArrayCache.filteredEdges, data.numElements.edge),
     pointSizes |-> Prefix(typedArrayCache.newPointSizes, data.numElements.point),
     pointColors |-> Prefix(typedArrayCache.newPointColors, data.numElements.point),
     edgeColors |-> Prefix(typedArrayCache.newEdgeColors, data.numElements.edge),
     edgeHeights |-> Prefix(typedArrayCache.newEdgeHeights, data.numElements.edge)]

\* what the pass that built a view of these masks gathered into its arrays
GatheredFor(masks) ==
    [unsortedEdges |-> FilteredEdges(UnsortedEdgeMask(masks, rawdata),
                                     PointOriginalLookup(masks, rawdata), rawdata),
     pointSizes |-> Gather(masks.point, rawdata.numElements.point, rawdata.pointSizes),
     pointColors |-> Gather(masks.point, rawdata.numElements.point, rawdata.pointColors),
     edgeColors |-> Gather(masks.edge, rawdata.numElements.edge, rawdata.edgeColors),
     edgeHeights |-> Gather(masks.edge, rawdata.numElements.edge, rawdata.edgeHeights)]

\* C26: while a view installed by a successful pass is the current view, its
\* typed arrays (unsortedEdges, pointSizes, pointColors, edgeColors,
\* edgeHeights) hold the gather computed for its own mask, also while a later
\* pass is in progress or has failed.
C26_InstalledViewNotMutated ==
    ~data.isRaw => ViewArrays = GatheredFor(data.masks)

\* numElements of the view queries read: this.data is rawdata before the
\* first pass installs a view
DataNumElements == IF data.isRaw THEN rawdata.numElements ELSE data.numElements

\* C28: at every point where a filter pass yields control and after it
\* completes, the translation mask and the view agree:
\* data.numElements.point = lastMasks.numPoints() and data.numElements.edge =
\* lastMasks.numEdges(), so a query running between two continuations never
\* pairs the new lastMasks with the old data or the reverse.
C28_MasksAndViewAgree ==
    /\ DataNumElements.point = MaskNum(lastMasks.point, rawdata.numElements.point)
    /\ DataNumElements.edge = MaskNum(lastMasks.edge, rawdata.numElements.edge)

\* the same agreement whenever no pass is between two of its continuations
C28_MasksAndViewAgreeWhenIdle == pass = Idle => C28_MasksAndViewAgree

\* L: the position of raw point p in the point set of the view's mask
LocalPoint(p) ==
    LET visited == MaskIndexes(data.masks.point, rawdata.numElements.point)
    IN CHOOSE k \in DOMAIN visited : visited[k] = p

\* raw sorted indices of the edges of the view's mask, by local position
ViewEdges == MaskIndexes(data.masks.edge, rawdata.numElements.edge)

\* every edge of the view's mask has both endpoints in its point set
EdgesInsidePoints ==
    LET points == {ViewPoints[k] : k \in DOMAIN ViewPoints}
    IN \A k \in DOMAIN ViewEdges :
          LET edge == rawdata.forwardsEdges.edgesTyped[ViewEdges[k]]
          IN edge[1] \in points /\ edge[2] \in points

\* a raw edge with its endpoints renamed to local point ids
Localized(edge) == <<LocalPoint(edge[1]), LocalPoint(edge[2])>>

\* C29: after a successful filter pass with a mask M whose edges all have
\* both endpoints in M's point set, the k-th sorted edge of the new forward
\* encapsulation has endpoints (L[s], L[d]), (s, d) being the endpoints of the
\* raw sorted edge M.edge[k]; hence the edgeColors and edgeHeights gathered
\* at local edge k belong to a raw edge with the endpoints of local sorted
\* edge k (a raw edge colour is the unsorted index of its edge plus one).
C29_SortedEdgesFollowMask ==
    (~data.isRaw /\ EdgesInsidePoints) =>
        /\ DOMAIN data.forwardsEdges.edgesTyped = DOMAIN ViewEdges
        /\ \A k \in DOMAIN ViewEdges :
              /\ data.forwardsEdges.edgesTyped[k]
                    = Localized(rawdata.forwardsEdges.edgesTyped[ViewEdges[k]])
              /\ data.forwardsEdges.edgesTyped[k]
                    = Localized(rawdata.unsortedEdges[ViewArrays.edgeColors[k] - 1])
              /\ data.forwardsEdges.edgesTyped[k]
                    = Localized(rawdata.unsortedEdges[ViewArrays.edgeHeights[k] - 1])

\* a view of points 0 and 2 and both edges, loaded in the order (2, 0), (0, 2)
C29_Witness ==
    /\ ~data.isRaw /\ EdgesInsidePoints
    /\ rawdata.unsortedEdges = (0 :> <<2, 0>> @@ 1 :> <<0, 2>>)
    /\ data.masks.point = ListSel(0 :> 0 @@ 1 :> 2)
    /\ ALen(ViewEdges) = 2
    /\ data.forwardsEdges.edgesTyped = (0 :> <<0, 1>> @@ 1 :> <<1, 0>>)

----------------------------------------------------------------------------
(* Dataframe.prototype.pruneMaskEdges                                      *)

\* a lookup that stores the local position of each point, so that the point
\* at position 0 tests as absent
PointMaskLocalPositions(oldMask, numPoints) ==
    LET visited == MaskIndexes(oldMask.point, numPoints)
    IN {visited[k] : k \in DOMAIN visited \ {0}}

\* pointMaskOriginalLookup: the point ids whose entry is set to 1
PointMaskOriginalLookup(oldMask, numPoints) ==
    LET visited == MaskIndexes(oldMask.point, numPoints)
    IN {visited[k] : k \in DOMAIN visited}

RECURSIVE PruneLoop(_, _, _, _, _)
\* the mapEdgeIndexes callback, run over the yielded edge indices in order
PruneLoop(visited, edges, lookup, k, edgeMask) ==
    IF k >= ALen(visited) THEN edgeMask
    ELSE LET edgeIdx == visited[k]
             newSrc == edgeIdx \in DOMAIN edges /\ edges[edgeIdx][1] \in lookup
             newDst == edgeIdx \in DOMAIN edges /\ edges[edgeIdx][2] \in lookup
         IN PruneLoop(visited, edges, lookup, k + 1,
                      IF newSrc /\ newDst THEN Push(edgeMask, edgeIdx) ELSE edgeMask)

\* pruneMaskEdges on a dataframe whose forwardsEdges.edgesTyped is `edges`
pruneMaskEdges(oldMask, edges, numElements) ==
    LET lookup == PointMaskOriginalLookup(oldMask, numElements.point)
        edgeMask == PruneLoop(MaskIndexes(oldMask.edge, numElements.edge),
                              edges, lookup, 0, EmptyArr)
    IN DataframeMask(oldMask.point, ListSel(edgeMask))

\* sorted edge lists rawdata.hostBuffers.forwardsEdges.edgesTyped may hold
SortedEdgeLists ==
    {edges \in EdgeArrays :
        \A i, j \in DOMAIN edges : i < j => EdgeCompare(edges, i, j) <= 0}

PruneInit ==
    /\ \E edges \in SortedEdgeLists :
          call \in [op : {"pruneMaskEdges"},
                    edges : {edges},
                    numElements : {[point |-> MaxPoints, edge |-> ALen(edges)]},
                    oldMask : {DataframeMask(point, edge) :
                                  point \in Selections(MaxPoints),
                                  edge \in Selections(ALen(edges))}]
    /\ returned = NoValue /\ stream = NoValue
    /\ encIn = NoValue /\ encOut = NoValue
    /\ cmArgs = NoValue /\ cmHeap = NoValue /\ cmOut = NoValue
    /\ DfUnused

PruneMaskEdges ==
    /\ call.op = "pruneMaskEdges" /\ returned = NoValue
    /\ returned' = pruneMaskEdges(call.oldMask, call.edges, call.numElements)
    /\ UNCHANGED <<call, stream, encVars, cmVars, dfVars>>

PruneNext == PruneMaskEdges

PruneSpec == PruneInit /\ [][PruneNext]_vars

\* C12: pruneMaskEdges(M) returns a mask with M's point selection whose edge
\* list is M's edge indices, in M's order, restricted to the edges whose
\* source and destination in the sorted edge list are both points of M.
C12_PrunedEdgesHaveBothEndpoints ==
    (call # NoValue /\ call.op = "pruneMaskEdges" /\ returned # NoValue) =>
        LET points == Members(call.oldMask.point, call.numElements.point)
            kept == {e \in Members(call.oldMask.edge, call.numElements.edge) :
                        /\ call.edges[e][1] \in points
                        /\ call.edges[e][2] \in points}
        IN /\ returned.point = call.oldMask.point
           /\ ~returned.edge.full
           /\ returned.edge.idx = Ascending(kept)

\* points {0, 1} of three, every edge selected, edges (0,1) and (1,2): only
\* (0,1) is kept
C12_Witness ==
    /\ call # NoValue /\ call.op = "pruneMaskEdges" /\ returned # NoValue
    /\ call.oldMask.point = ListSel(Ascending({0, 1}))
    /\ call.oldMask.edge.full
    /\ ALen(call.edges) = 2
    /\ call.edges[0] = <<0, 1>> /\ call.edges[1] = <<1, 2>>
    /\ returned.edge.idx = Ascending({0})

----------------------------------------------------------------------------
(* ColumnAggregation.  A JavaScript number is Finite(n), Infinity,         *)
(* NegInfinity or NaN; the n of a number that is not finite only tells     *)
(* the three apart.                                                        *)

NegInfinity == [finite |-> FALSE, n |-> -1]
NaN == [finite |-> FALSE, n |-> 2]
Int32Max == 2147483647          \* 0x7FFFFFFF

\* A finite number that is not an integer is the fraction n / d in lowest
\* terms, d > 1; Finite(n) is the integer n.
Den(x) == IF "d" \in DOMAIN x THEN x.d ELSE 1

Abs(x) == IF x < 0 THEN -x ELSE x

RECURSIVE Gcd(_, _)
Gcd(a, b) == IF b = 0 THEN a ELSE Gcd(b, a % b)

\* the number p / q, for q # 0
Quot(p, q) ==
    LET g == Gcd(Abs(p), Abs(q))
        num == (IF q < 0 THEN -p ELSE p) \div g
        den == Abs(q) \div g
    IN IF den = 1 THEN Finite(num) ELSE [finite |-> TRUE, n |-> num, d |-> den]

\* a < b
JsLess(a, b) ==
    IF a = NaN \/ b = NaN THEN FALSE
    ELSE IF a.finite /\ b.finite THEN a.n * Den(b) < b.n * Den(a)
    ELSE IF a.finite THEN b = Infinity
    ELSE IF b.finite THEN a = NegInfinity
    ELSE a = NegInfinity /\ b = Infinity

\* a - b
JsMinus(a, b) ==
    IF a = NaN \/ b = NaN THEN NaN
    ELSE IF a.finite /\ b.finite
    THEN Quot(a.n * Den(b) - b.n * Den(a), Den(a) * Den(b))
    ELSE IF a.finite THEN (IF b = Infinity THEN NegInfinity ELSE Infinity)
    ELSE IF b.finite THEN a
    ELSE IF a = b THEN NaN ELSE a

\* numberSignifiesUndefined; valueSignifiedUndefined comes to it for a number
numberSignifiesUndefined(value) == value = NaN \/ value = Finite(Int32Max)

\* inferDataType on a column of numbers: 'integer' when isIntegral, the
\* verdict on the last defined value, is left true
inferDataType(values) ==
    LET defined == {i \in DOMAIN values : ~numberSignifiesUndefined(values[i])}
    IN IF defined = {} \/ values[SetMax(defined)].finite THEN "integer" ELSE "number"

\* if (value < minValue) { minValue = value; }
\* else if (value > maxValue) { maxValue = value; }
MinMaxStep(value, minValue, maxValue) ==
    IF JsLess(value, minValue)
    THEN [minValue |-> value, maxValue |-> maxValue]
    ELSE IF JsLess(maxValue, value)
    THEN [minValue |-> minValue, maxValue |-> value]
    ELSE [minValue |-> minValue, maxValue |-> maxValue]

RECURSIVE NumericLoop(_, _, _)
\* the for loop of fixedAllocationNumericAggregations
NumericLoop(values, i, st) ==
    IF i >= ALen(values) THEN st
    ELSE IF numberSignifiesUndefined(values[i]) THEN NumericLoop(values, i + 1, st)
    ELSE LET mm == MinMaxStep(values[i], st.minValue, st.maxValue)
         IN NumericLoop(values, i + 1,
                        [minValue |-> mm.minValue, maxValue |-> mm.maxValue,
                         sum |-> st.sum + values[i].n])

\* the aggregations fixedAllocationNumericAggregations stores; averageValue
\* is kept as the quotient sum / numValues it is computed from
fixedAllocationNumericAggregations(values) ==
    LET st == NumericLoop(values, 0,
                  [minValue |-> Infinity, maxValue |-> NegInfinity, sum |-> 0])
    IN [minValue |-> st.minValue, maxValue |-> st.maxValue, sum |-> st.sum,
        averageValue |-> [sum |-> st.sum, numValues |-> ALen(values)]]

RECURSIVE CountDistinctLoop(_, _, _, _)
\* the for loop of countDistinct; distinctCounts is keyed by the value
CountDistinctLoop(values, limit, i, st) ==
    IF i >= ALen(values) THEN st
    ELSE IF numberSignifiesUndefined(values[i]) THEN CountDistinctLoop(values, limit, i + 1, st)
    ELSE LET value == values[i]
             mm == MinMaxStep(value, st.minValue, st.maxValue)
             keys == DOMAIN st.distinctCounts
         IN CountDistinctLoop(values, limit, i + 1,
              IF st.numDistinct > limit
              THEN [st EXCEPT !.minValue = mm.minValue, !.maxValue = mm.maxValue]
              ELSE IF value.n \notin keys
              THEN [minValue |-> mm.minValue, maxValue |-> mm.maxValue,
                    numDistinct |-> st.numDistinct + 1,
                    distinctCounts |-> [k \in keys \cup {value.n} |->
                                          IF k = value.n THEN 1 ELSE st.distinctCounts[k]]]
              ELSE [minValue |-> mm.minValue, maxValue |-> mm.maxValue,
                    numDistinct |-> st.numDistinct,
                    distinctCounts |-> [st.distinctCounts EXCEPT ![value.n] = @ + 1]])

\* the aggregations countDistinct(limit) stores
countDistinct(values, limit) ==
    LET st == CountDistinctLoop(values, limit, 0,
                  [minValue |-> Infinity, maxValue |-> NegInfinity,
                   numDistinct |-> 0, distinctCounts |-> EmptyArr])
        dataType == inferDataType(values)
    IN [countDistinct |-> st.numDistinct,
        distinctValues |-> st.distinctCounts,
        isCategorical |->
            IF dataType = "integer"
            THEN /\ st.numDistinct <= limit
                 /\ (st.minValue = Finite(0) \/ st.minValue = Finite(1))
                 /\ JsMinus(st.maxValue, st.minValue) = Finite(st.numDistinct - 1)
            ELSE FALSE]

(* Specification of the aggregations: columns of up to MaxColumn integers, *)
(* some of them the undefined markers NaN and 0x7FFFFFFF.                  *)

ColumnValues == {Finite(n) : n \in (-1)..MaxValue} \cup {NaN, Finite(Int32Max)}
Columns == UNION {[Indices(n) -> ColumnValues] : n \in 0..MaxColumn}

AggInit ==
    /\ \/ call \in [op : {"countDistinct"}, values : Columns, limit : 1..MaxDistinct]
       \/ call \in [op : {"fixedAllocationNumericAggregations"}, values : Columns]
    /\ returned = NoValue /\ stream = NoValue
    /\ encIn = NoValue /\ encOut = NoValue
    /\ cmArgs = NoValue /\ cmHeap = NoValue /\ cmOut = NoValue
    /\ DfUnused

CountDistinct ==
    /\ call.op = "countDistinct" /\ returned = NoValue
    /\ returned' = countDistinct(call.values, call.limit)
    /\ UNCHANGED <<call, stream, encVars, cmVars, dfVars>>

NumericAggregations ==
    /\ call.op = "fixedAllocationNumericAggregations" /\ returned = NoValue
    /\ returned' = fixedAllocationNumericAggregations(call.values)
    /\ UNCHANGED <<call, stream, encVars, cmVars, dfVars>>

AggNext == CountDistinct \/ NumericAggregations

AggSpec == AggInit /\ [][AggNext]_vars

(* Properties of the aggregations *)

Ran(op) == call # NoValue /\ call.op = op /\ returned # NoValue

\* the defined values of a column, as integers
DefinedValues(values) ==
    {values[i].n : i \in {j \in DOMAIN values : ~numberSignifiesUndefined(values[j])}}
Occurrences(values, n) == Cardinality({i \in DOMAIN values : values[i] = Finite(n)})
SetMin(S) == CHOOSE x \in S : \A y \in S : x <= y

\* C13: for an integer column isCategorical is true exactly when the number
\* of distinct defined values is at most the limit, the smallest defined
\* value is 0 or 1 and max - min = distinct count - 1, whatever the order of
\* the values in the column.
C13_CategoricalIffDenseFromZeroOrOne ==
    Ran("countDistinct") =>
        LET D == DefinedValues(call.values)
        IN returned.isCategorical <=>
              /\ D # {}
              /\ Cardinality(D) <= call.limit
              /\ SetMin(D) \in {0, 1}
              /\ SetMax(D) - SetMin(D) = Cardinality(D) - 1

\* C14: countDistinct(limit) records at most limit distinct keys, and every
\* recorded key carries the total number of occurrences of its value in the
\* column.
C14_DistinctCappedCountsExact ==
    Ran("countDistinct") =>
        /\ returned.countDistinct <= call.limit
        /\ Cardinality(DOMAIN returned.distinctValues) <= call.limit
        /\ \A k \in DOMAIN returned.distinctValues :
              returned.distinctValues[k] = Occurrences(call.values, k)

\* C15: for a numeric column with a defined value, minValue is the smallest
\* and maxValue the largest defined value (NaN and 0x7FFFFFFF skipped) and
\* sum is the sum of the defined values, in every order of the column.
C15_MinMaxSumOfDefined ==
    (Ran("fixedAllocationNumericAggregations") /\ DefinedValues(call.values) # {}) =>
        LET D == DefinedValues(call.values)
        IN /\ returned.minValue = Finite(SetMin(D))
           /\ returned.maxValue = Finite(SetMax(D))
           /\ returned.sum =
                 SumOver([n \in D |-> n * Occurrences(call.values, n)], D)

----------------------------------------------------------------------------
(* Dataframe.prototype.countBy on a column of strings                      *)

maxNumBins == 29

\* valueSignifiedUndefined for a string
stringSignifiesUndefined(value) == value = "\\0" \/ value = "n/a"

\* the values a loop over the listed rows would read: values[indices[i]]
CountedPositionsListed(values, indices) ==
    {indices[i] : i \in {j \in DOMAIN indices :
        indices[j] \in DOMAIN values /\ ~stringSignifiesUndefined(values[indices[j]])}}

\* the values the counting loop reads: values[i] for the loop counter i
CountedPositions(values, indices) ==
    {i \in Indices(ALen(indices)) :
        i \in DOMAIN values /\ ~stringSignifiesUndefined(values[i])}

\* rawBins after the counting loop
RawBins(values, indices) ==
    LET counted == CountedPositions(values, indices)
    IN [key \in {values[i] : i \in counted} |->
            Cardinality({i \in counted : values[i] = key})]

\* _.keys(rawBins): the keys in the order the loop created them
RawBinKeys(values, indices) ==
    LET counted == CountedPositions(values, indices)
        first == {i \in counted : \A j \in counted : j < i => values[j] # values[i]}
        positions == Ascending(first)
    IN [k \in DOMAIN positions |-> values[positions[k]]]

\* a comparator that puts the least frequent key first
CountCompareAscending(rawBins, a, b) == rawBins[a] - rawBins[b]

\* comparator handed to keys.sort
CountCompare(rawBins, a, b) == rawBins[b] - rawBins[a]

\* the orders keys.sort may leave the keys in
SortedKeyOrders(keys, rawBins) ==
    {p \in IndexPermutations(ALen(keys)) :
        \A i, j \in DOMAIN keys :
            i < j => CountCompare(rawBins, keys[p[i]], keys[p[j]]) <= 0}

\* Array.prototype.slice(from, to) for 0 <= from
Slice(a, from, to) ==
    LET hi == IF to < 0 THEN ALen(a) + to ELSE IF to > ALen(a) THEN ALen(a) ELSE to
        n == IF hi > from THEN hi - from ELSE 0
    IN [k \in Indices(n) |-> a[from + k]]

Min2(a, b) == IF a < b THEN a ELSE b

\* countBy with the bin cap `cap`, given the order the sort produced
countBy(values, indices, dataType, cap, order) ==
    IF ALen(indices) = 0 THEN [type |-> "nodata"]
    ELSE
    LET rawBins == RawBins(values, indices)
        keys == RawBinKeys(values, indices)
        numBins == Min2(ALen(keys), cap)
        numBinsWithoutOther == numBins - 1
        sortedKeys == [k \in DOMAIN keys |-> keys[order[k]]]
        kept == IF ALen(keys) = 0 THEN EmptyArr
                ELSE Slice(sortedKeys, 0, numBinsWithoutOther)
        otherKeys == IF ALen(keys) = 0 THEN EmptyArr
                     ELSE Slice(sortedKeys, numBinsWithoutOther, ALen(sortedKeys))
        keptKeys == {kept[k] : k \in DOMAIN kept}
        other == {otherKeys[k] : k \in DOMAIN otherKeys}
        binKeys == keptKeys \cup (IF ALen(otherKeys) = 1 THEN other
                                  ELSE IF ALen(otherKeys) > 1 THEN {"_other"}
                                  ELSE {})
        bins == [key \in binKeys |->
                    IF key = "_other" /\ ALen(otherKeys) > 1
                    THEN SumOver(rawBins, other)
                    ELSE rawBins[key]]
    IN [type |-> "countBy",
        dataType |-> dataType,
        numValues |-> SumOver(bins, binKeys),
        numBins |-> Cardinality(binKeys),
        bins |-> bins]

(* Specification of countBy: string columns of up to CbMaxColumn values    *)
(* whose distinct values first occur in alphabetical order, counted over   *)
(* the index subsets from..n-1, under the cap of the code and under small  *)
(* caps.                                                                   *)

Letters == <<"a", "b", "c", "d">>
LetterRank(value) == CHOOSE r \in DOMAIN Letters : Letters[r] = value
StringValues == {Letters[r] : r \in DOMAIN Letters} \cup {"n/a"}

StringColumns ==
    {values \in UNION {[Indices(n) -> StringValues] : n \in 0..CbMaxColumn} :
        \A i \in DOMAIN values :
            (values[i] # "n/a" /\ LetterRank(values[i]) > 1) =>
                \E j \in Indices(i) :
                    /\ values[j] # "n/a"
                    /\ LetterRank(values[j]) = LetterRank(values[i]) - 1}

IndexRange(from, n) == [k \in Indices(n - from) |-> from + k]

CountByInit ==
    /\ \E values \in StringColumns :
          call \in [op : {"countBy"},
                    values : {values},
                    indices : {IndexRange(from, ALen(values)) : from \in 0..ALen(values)},
                    dataType : {"string"},
                    cap : (1..MaxBins) \cup {maxNumBins}]
    /\ returned = NoValue /\ stream = NoValue
    /\ encIn = NoValue /\ encOut = NoValue
    /\ cmArgs = NoValue /\ cmHeap = NoValue /\ cmOut = NoValue
    /\ DfUnused

CountBy ==
    /\ call.op = "countBy" /\ returned = NoValue
    /\ \E order \in SortedKeyOrders(RawBinKeys(call.values, call.indices),
                                     RawBins(call.values, call.indices)) :
          returned' = countBy(call.values, call.indices, call.dataType, call.cap, order)
    /\ UNCHANGED <<call, stream, encVars, cmVars, dfVars>>

CountByNext == CountBy

CountBySpec == CountByInit /\ [][CountByNext]_vars

(* Properties of countBy *)

\* a countBy call over every row of a column has returned
CountByWholeColumn ==
    /\ Ran("countBy")
    /\ ALen(call.values) > 0
    /\ call.indices = IndexRange(0, ALen(call.values))

\* number of occurrences of each defined value of a column
ValueCounts(values) ==
    LET defined == {i \in DOMAIN values : ~stringSignifiesUndefined(values[i])}
    IN [key \in {values[i] : i \in defined} |->
            Cardinality({i \in defined : values[i] = key})]

\* the bins are the counts of (cap - 1) most frequent values, with the
\* remaining values merged into _other when there are at least two of them
\* and kept under their own key otherwise
KeepsTopMergesRest ==
    LET counts == ValueCounts(call.values)
        K == DOMAIN counts
    IN \E T \in SUBSET K :
          /\ Cardinality(T) = Min2(call.cap - 1, Cardinality(K))
          /\ \A t \in T, u \in K \ T : counts[t] >= counts[u]
          /\ returned.bins =
                IF Cardinality(K \ T) >= 2
                THEN [key \in T \cup {"_other"} |->
                        IF key = "_other" THEN SumOver(counts, K \ T) ELSE counts[key]]
                ELSE counts

\* the column a, a, a, b, c, d counted with a cap of 3 bins
ExampleCall ==
    /\ call.values = [k \in Indices(6) |-> IF k < 3 THEN "a" ELSE Letters[k - 1]]
    /\ call.cap = 3

C16_WitnessSingleLeftover ==
    /\ CountByWholeColumn
    /\ call.cap = 2
    /\ DOMAIN returned.bins = {"a", "b"}
    /\ returned.bins["a"] < returned.bins["b"]

\* C25: countBy counts values[i] for i below indices.length, whatever the
\* listed indices are: its result is a result of counting the first
\* indices.length positions of the column, it counts exactly the defined
\* values among those positions, and an empty index subset gives nodata.
C25_CountsLeadingPositions ==
    Ran("countBy") =>
        LET length == ALen(call.indices)
            leading == IndexRange(0, length)
            defined == {i \in Indices(length) :
                          i \in DOMAIN call.values
                          /\ ~stringSignifiesUndefined(call.values[i])}
        IN IF length = 0 THEN returned = [type |-> "nodata"]
           ELSE /\ returned.numValues = Cardinality(defined)
                /\ \A key \in DOMAIN returned.bins :
                      key # "_other" =>
                          returned.bins[key] =
                              Cardinality({i \in defined : call.values[i] = key})
                /\ \E order \in SortedKeyOrders(RawBinKeys(call.values, leading),
                                                RawBins(call.values, leading)) :
                      returned = countBy(call.values, leading, call.dataType,
                                         call.cap, order)

\* the rows 2 and 3 of a, a, b, b are listed and the two a's are counted
C25_Witness ==
    /\ Ran("countBy")
    /\ call.values = (0 :> "a" @@ 1 :> "a" @@ 2 :> "b" @@ 3 :> "b")
    /\ call.indices = (0 :> 2 @@ 1 :> 3)
    /\ call.cap = maxNumBins
    /\ returned.bins = ("a" :> 2)

\* no row is listed
C25_WitnessNoData ==
    /\ Ran("countBy")
    /\ ALen(call.values) = 2
    /\ ALen(call.indices) = 0
    /\ returned = [type |-> "nodata"]

----------------------------------------------------------------------------
(* Dataframe.prototype.calculateBinning.  Arithmetic is exact on fractions; *)
(* the sign of a zero is not followed.                                      *)

\* a + b
JsPlus(a, b) ==
    IF a = NaN \/ b = NaN THEN NaN
    ELSE IF a.finite /\ b.finite
    THEN Quot(a.n * Den(b) + b.n * Den(a), Den(a) * Den(b))
    ELSE IF a.finite THEN b
    ELSE IF b.finite THEN a
    ELSE IF a = b THEN a ELSE NaN

\* -1, 0 or 1
JsSign(a) ==
    IF a.finite THEN (IF a.n < 0 THEN -1 ELSE IF a.n = 0 THEN 0 ELSE 1)
    ELSE IF a = NegInfinity THEN -1 ELSE 1

SignedInfinity(sign) == IF sign < 0 THEN NegInfinity ELSE Infinity

\* a * b
JsTimes(a, b) ==
    IF a = NaN \/ b = NaN THEN NaN
    ELSE IF a.finite /\ b.finite THEN Quot(a.n * b.n, Den(a) * Den(b))
    ELSE IF JsSign(a) = 0 \/ JsSign(b) = 0 THEN NaN
    ELSE SignedInfinity(JsSign(a) * JsSign(b))

\* a / b
JsDiv(a, b) ==
    IF a = NaN \/ b = NaN THEN NaN
    ELSE IF a.finite /\ b.finite
    THEN IF b.n # 0 THEN Quot(a.n * Den(b), Den(a) * b.n)
         ELSE IF a.n = 0 THEN NaN ELSE SignedInfinity(JsSign(a))
    ELSE IF a.finite THEN Finite(0)
    ELSE IF b.finite THEN SignedInfinity(IF JsSign(b) < 0 THEN -JsSign(a) ELSE JsSign(a))
    ELSE NaN

\* a <= b
JsLessEq(a, b) == a # NaN /\ b # NaN /\ ~JsLess(b, a)

\* Math.floor and Math.ceil
JsFloor(a) == IF a.finite THEN Finite(a.n \div Den(a)) ELSE a
JsCeil(a) == IF a.finite THEN Finite(-((-a.n) \div Den(a))) ELSE a

\* Math.ceil(Math.sqrt(n)) and Math.ceil(Math.log(n) / Math.log(2)), n >= 1
CeilSqrt(n) == CHOOSE k \in 0..n : k * k >= n /\ \A j \in 0..(k - 1) : j * j < n
CeilLog2(n) == CHOOSE k \in 0..n : 2^k >= n /\ \A j \in 0..(k - 1) : 2^j < n

maxBinCount == 30

\* goalBins, capped to 8..maxBinCount
GoalBins(numValues) ==
    LET goal == IF numValues > maxBinCount THEN CeilLog2(numValues) + 1
                ELSE CeilSqrt(numValues)
        capped == IF goal < maxBinCount THEN goal ELSE maxBinCount
    IN IF capped > 8 THEN capped ELSE 8

defaultBinning ==
    [numBins |-> Finite(1), binWidth |-> Finite(1),
     minValue |-> NegInfinity, maxValue |-> Infinity]

round_down(num, multiple) ==
    IF multiple = Finite(0) THEN num
    ELSE JsTimes(multiple, JsFloor(JsDiv(num, multiple)))

round_up(num, multiple) ==
    IF multiple = Finite(0) THEN num
    ELSE JsTimes(multiple, JsCeil(JsDiv(num, multiple)))

RECURSIVE RoughLoop(_, _)
\* while (numBins < 2 || numBins >= 100): the binWidth the loop ends with.
\* For a zero range numBins stays 0 and binWidth is multiplied by 0.1 until
\* it underflows to 0; numBins is then 0 / 0 = NaN and the loop ends.
RoughLoop(range, binWidth) ==
    LET numBins == JsDiv(range, binWidth)
    IN IF JsLess(numBins, Finite(2))
       THEN IF range = Finite(0) THEN Finite(0)
            ELSE RoughLoop(range, JsTimes(binWidth, Quot(1, 10)))
       ELSE IF JsLessEq(Finite(100), numBins)
       THEN RoughLoop(range, JsTimes(binWidth, Finite(10)))
       ELSE binWidth

RECURSIVE RefineLoop(_, _, _, _)
\* while (numBins < minBins || numBins > goalBins): the binWidth it ends with
RefineLoop(range, binWidth, minBins, goalBins) ==
    LET numBins == JsDiv(range, binWidth)
    IN IF JsLess(numBins, Finite(minBins))
       THEN RefineLoop(range, JsDiv(binWidth, Finite(2)), minBins, goalBins)
       ELSE IF JsLess(Finite(goalBins), numBins)
       THEN RefineLoop(range, JsTimes(binWidth, Finite(2)), minBins, goalBins)
       ELSE binWidth

\* calculateBinning; aggregations holds what getAggregationByType returns for
\* maxValue, minValue, countDistinct and isIntegral
calculateBinning(aggregations, numValues, goalNumberOfBins) ==
    LET goalBins == GoalBins(numValues)
        max == aggregations.maxValue
        min == aggregations.minValue
        range == JsMinus(max, min)
    IN IF aggregations.countDistinct < maxBinCount /\ aggregations.isIntegral
       THEN [numBins |-> Finite(numValues),
             binWidth |-> JsDiv(range, Finite(numValues - 1)),
             isCountBy |-> JsLessEq(range, Finite(maxBinCount)),
             minValue |-> min,
             maxValue |-> max]
       ELSE IF goalNumberOfBins # 0
       THEN [numBins |-> Finite(goalNumberOfBins),
             binWidth |-> JsDiv(range, Finite(goalNumberOfBins - 1)),
             minValue |-> min,
             maxValue |-> max]
       ELSE IF \/ min = Infinity
               \/ max = NegInfinity
               \/ JsLess(JsDiv(range, Finite(10)), Finite(0))
       THEN defaultBinning
       ELSE LET rough == RoughLoop(range, Finite(10))
                minBins == IF (goalBins \div 2) - 1 > 3 THEN (goalBins \div 2) - 1 ELSE 3
                binWidth == RefineLoop(range, rough, minBins, goalBins)
                bottomVal == round_down(min, binWidth)
                topVal == round_up(max, binWidth)
            IN [numBins |-> JsPlus(JsFloor(JsDiv(JsMinus(topVal, bottomVal), binWidth)),
                                   Finite(1)),
                binWidth |-> binWidth,
                minValue |-> bottomVal,
                maxValue |-> topVal]

(* Specification of calculateBinning: the aggregations are those of a      *)
(* column of up to BinMaxColumn integers, or of the same column with one   *)
(* half added to every value.                                              *)

BinColumns == {values \in Columns : ALen(values) <= BinMaxColumn}

\* the cached aggregations of the column values[i] + shift
AggregationsOf(values, shift) ==
    LET numeric == fixedAllocationNumericAggregations(values)
        hasDefined == \E i \in DOMAIN values : ~numberSignifiesUndefined(values[i])
    IN [maxValue |-> JsPlus(numeric.maxValue, shift),
        minValue |-> JsPlus(numeric.minValue, shift),
        countDistinct |-> countDistinct(values, 500).countDistinct,
        isIntegral |-> inferDataType(values) = "integer"
                          /\ (shift = Finite(0) \/ ~hasDefined)]

BinningInit ==
    /\ \E values \in BinColumns, shift \in {Finite(0), Quot(1, 2)} :
          LET aggregations == AggregationsOf(values, shift)
          IN call \in [op : {"calculateBinning"},
                       aggregations : {aggregations},
                       numValues : {aggregations.countDistinct, ALen(values)},
                       goalNumberOfBins : 0..MaxGoalBins]
    /\ returned = NoValue /\ stream = NoValue
    /\ encIn = NoValue /\ encOut = NoValue
    /\ cmArgs = NoValue /\ cmHeap = NoValue /\ cmOut = NoValue
    /\ DfUnused

CalculateBinning ==
    /\ call.op = "calculateBinning" /\ returned = NoValue
    /\ returned' = calculateBinning(call.aggregations, call.numValues,
                                    call.goalNumberOfBins)
    /\ UNCHANGED <<call, stream, encVars, cmVars, dfVars>>

BinningNext == CalculateBinning

BinningSpec == BinningInit /\ [][BinningNext]_vars

(* Properties of calculateBinning *)

\* minValue == maxValue, or minValue = Infinity / maxValue = -Infinity
DegenerateRange(aggregations) ==
    \/ aggregations.minValue = aggregations.maxValue
    \/ aggregations.minValue = Infinity
    \/ aggregations.maxValue = NegInfinity

\* C17: in the degenerate cases calculateBinning returns the 1-bin default
\* binning (numBins = 1, binWidth = 1) in every branch: small-integral,
\* explicit goal bin count, automatic width search.
C17_DegenerateGivesDefaultBinning ==
    (Ran("calculateBinning") /\ DegenerateRange(call.aggregations)) =>
        /\ returned.numBins = Finite(1)
        /\ returned.binWidth = Finite(1)

----------------------------------------------------------------------------
(* Dataframe.prototype.getMasksForQuery.  A string is the sequence of its  *)
(* pieces, ":" being a piece of its own; undefined is NoValue.             *)

Str(pieces) == [s |-> pieces]

\* columnName.lastIndexOf(':'), counted from 1; 0 when there is none
LastIndexOfColon(pieces) ==
    LET at == {i \in 1..Len(pieces) : pieces[i] = ":"}
    IN IF at = {} THEN 0 ELSE SetMax(at)

Thrown(message) == [threw |-> TRUE, message |-> message]
Value(v) == [threw |-> FALSE, value |-> v]

\* getKeyFromName(maybeName, type) over rawdata.attributes / data.attributes;
\* for a type with no attribute map the read attributes[type][maybeName]
\* is a TypeError
getKeyFromName(attributes, maybeName, type) ==
    LET lookIn(t) ==
            IF t \notin DOMAIN attributes
            THEN Thrown("Cannot read property of undefined")
            ELSE LET matchKeys == {key \in DOMAIN attributes[t] :
                                      attributes[t][key].name = maybeName}
                 IN IF matchKeys # {}
                    THEN Value([attribute |-> CHOOSE key \in matchKeys : TRUE,
                                type |-> t])
                    ELSE IF maybeName \in DOMAIN attributes[t]
                         THEN Value([attribute |-> maybeName, type |-> t])
                         ELSE Value(NoValue)
    IN IF type = NoValue
       THEN IF lookIn(Str(<<"point">>)).value # NoValue
            THEN lookIn(Str(<<"point">>))
            ELSE lookIn(Str(<<"edge">>))
       ELSE lookIn(type)

\* normalizeAttributeName(columnName, type)
normalizeAttributeName(attributes, columnName, type) ==
    LET idx == IF columnName = NoValue THEN 0 ELSE LastIndexOfColon(columnName.s)
    IN IF idx # 0
       THEN getKeyFromName(attributes,
                           Str(SubSeq(columnName.s, idx + 1, Len(columnName.s))),
                           Str(SubSeq(columnName.s, 1, idx - 1)))
       ELSE getKeyFromName(attributes, columnName, type)

\* getAttributeMask(type, columnName, filterFunc)
getAttributeMask(attributes, type, columnName) ==
    IF type \notin {Str(<<"point">>), Str(<<"edge">>)}
    THEN Thrown("Unknown graph component type")
    ELSE IF columnName \notin DOMAIN attributes[type]
         THEN Thrown("Cannot read property 'values' of undefined")
         ELSE Value([maskOver |-> type, column |-> columnName])

\* the try block of getMasksForQuery; ExpressionPlan is given by what the
\* query's ast says of it
PlanAndExecute(attributes, query, type, attribute) ==
    IF query.ast = NoValue
    THEN getAttributeMask(attributes, type, attribute)
    ELSE IF query.ast.kind = "unsupported"
    THEN Thrown("Unhandled input to plan")
    ELSE IF query.ast.kind = "redundant"
    THEN LET named == normalizeAttributeName(attributes, query.ast.identifier,
                                             query.ast.iterationType)
         IN IF named.threw THEN named
            ELSE IF named.value = NoValue
            THEN Thrown("Cannot read property 'attribute' of undefined")
            ELSE getAttributeMask(attributes, query.ast.iterationType,
                                  named.value.attribute)
    ELSE Value(query.ast.yields)

\* getMasksForQuery(query, errors): whether it threw, what it returned and
\* the errors list as the call leaves it
getMasksForQuery(attributes, query, errors) ==
    LET normalization ==
            IF query.attribute = NoValue THEN Value(NoValue)
            ELSE normalizeAttributeName(attributes, query.attribute, query.type)
        resolved == query.attribute # NoValue /\ ~normalization.threw
                    /\ normalization.value # NoValue
        type == IF resolved THEN normalization.value.type ELSE query.type
        attribute == IF resolved THEN normalization.value.attribute
                     ELSE query.attribute
        masks == PlanAndExecute(attributes, query, type, attribute)
    IN IF normalization.threw
       THEN [threw |-> TRUE, value |-> NoValue, errors |-> errors]
       ELSE IF query.attribute # NoValue /\ normalization.value = NoValue
       THEN [threw |-> FALSE, value |-> NoValue,
             errors |-> Append(errors, "Unknown frame element")]
       ELSE IF masks.threw
       THEN [threw |-> FALSE, value |-> NoValue,
             errors |-> Append(errors, masks.message)]
       ELSE IF masks.value = NoValue \/ masks.value = [array |-> TRUE]
       THEN [threw |-> FALSE, value |-> NoValue,
             errors |-> Append(errors, "Unable to execute the query")]
       ELSE [threw |-> FALSE, value |-> masks.value, errors |-> errors]

----------------------------------------------------------------------------
(* Specification of getMasksForQuery: a dataframe with the point column    *)
(* degree and the edge column weight, queried by name, by type:name and    *)
(* by ast.                                                                 *)

QueryAttributes ==
    (Str(<<"point">>) :> (Str(<<"degree">>) :> [name |-> Str(<<"degree">>)]))
    @@ (Str(<<"edge">>) :> (Str(<<"weight">>) :> [name |-> Str(<<"weight">>)]))
    @@ (Str(<<"simulator">>) :> [key \in {} |-> NoValue])

QueryNames ==
    {NoValue, Str(<<"degree">>), Str(<<"weight">>), Str(<<"missing">>),
     Str(<<"point", ":", "degree">>), Str(<<"edge", ":", "degree">>),
     Str(<<"simulator", ":", "degree">>), Str(<<"node", ":", "degree">>)}

QueryTypes == {NoValue, Str(<<"point">>), Str(<<"edge">>)}

QueryAsts ==
    {NoValue, [kind |-> "unsupported"]}
    \cup [kind : {"redundant"}, iterationType : {Str(<<"point">>)},
          identifier : {Str(<<"degree">>), Str(<<"missing">>)}]
    \cup [kind : {"plan"},
          yields : {NoValue, [array |-> TRUE],
                    [maskOver |-> Str(<<"point">>), column |-> Str(<<"degree">>)]}]

QueryInit ==
    /\ call \in [op : {"getMasksForQuery"},
                 attributes : {QueryAttributes},
                 query : [attribute : QueryNames, type : QueryTypes, ast : QueryAsts],
                 errors : {<<>>, <<"Unknown frame element">>}]
    /\ returned = NoValue /\ stream = NoValue
    /\ encIn = NoValue /\ encOut = NoValue
    /\ cmArgs = NoValue /\ cmHeap = NoValue /\ cmOut = NoValue
    /\ DfUnused

GetMasksForQuery ==
    /\ call.op = "getMasksForQuery" /\ returned = NoValue
    /\ returned' = getMasksForQuery(call.attributes, call.query, call.errors)
    /\ UNCHANGED <<call, stream, encVars, cmVars, dfVars>>

QueryNext == GetMasksForQuery

QuerySpec == QueryInit /\ [][QueryNext]_vars

----------------------------------------------------------------------------
(* Properties of getMasksForQuery *)

\* C23: getMasksForQuery never throws to its caller: a call either returns
\* a mask and leaves the errors list as it was, or returns undefined with
\* exactly one message appended to the errors list.
C23_ErrorsCollectedNotThrown ==
    (call # NoValue /\ call.op = "getMasksForQuery" /\ returned # NoValue) =>
        /\ ~returned.threw
        /\ \/ returned.value # NoValue /\ returned.errors = call.errors
           \/ /\ returned.value = NoValue
              /\ Len(returned.errors) = Len(call.errors) + 1
              /\ SubSeq(returned.errors, 1, Len(call.errors)) = call.errors

-----------------------------------------------------------------------------
(* histogram *)

\* x | 0, for a number of magnitude below 2^31
ToInt32(x) ==
    IF x = NaN \/ ~x.finite THEN 0
    ELSE IF x.n >= 0 THEN x.n \div Den(x) ELSE -((-x.n) \div Den(x))

RECURSIVE HistogramLoop(_, _, _, _, _, _)
\* the for loop over indices; stray collects the bin ids outside
\* 0..numBins-1 that bins[binId]++ was applied to
HistogramLoop(values, indices, bottomVal, binWidth, i, st) ==
    IF i >= ALen(indices) THEN st
    ELSE LET value == values[indices[i]]
             binId == ToInt32(JsDiv(JsMinus(value, bottomVal), binWidth))
         IN IF numberSignifiesUndefined(value)
            THEN HistogramLoop(values, indices, bottomVal, binWidth, i + 1, st)
            ELSE HistogramLoop(values, indices, bottomVal, binWidth, i + 1,
                     IF binId \in DOMAIN st.bins
                     THEN [st EXCEPT !.bins[binId] = @ + 1]
                     ELSE [st EXCEPT !.stray = @ \cup {binId}])

\* the listed positions whose value is defined
ListedDefined(values, indices) ==
    {k \in DOMAIN indices : ~numberSignifiesUndefined(values[indices[k]])}

\* the guard against the 0 width case: what the loop and the result use
ZeroWidthGuard(binning) ==
    IF binning.maxValue = binning.minValue
    THEN [numBins |-> Finite(1), binWidth |-> Finite(1),
          maxValue |-> JsPlus(binning.minValue, Finite(1)),
          minValue |-> binning.minValue]
    ELSE [numBins |-> binning.numBins, binWidth |-> binning.binWidth,
          maxValue |-> binning.maxValue, minValue |-> binning.minValue]

\* histogram from the point where the binning is known
HistogramBins(values, numValues, binning, indices) ==
    LET used == ZeroWidthGuard(binning)
        retObj == [type |-> IF "isCountBy" \in DOMAIN binning /\ binning.isCountBy
                            THEN "countBy" ELSE "histogram",
                   numValues |-> numValues] @@ used
    IN IF used.numBins = Finite(1)
       THEN [bins |-> (0 :> numValues), stray |-> {}] @@ retObj
       ELSE IF used.numBins = NaN \/ ~used.numBins.finite
               \/ Den(used.numBins) # 1 \/ used.numBins.n < 0
       THEN [type |-> "RangeError"]
       ELSE LET st == HistogramLoop(values, indices, used.minValue, used.binWidth, 0,
                          [bins |-> [b \in Indices(used.numBins.n) |-> 0],
                           stray |-> {}])
            IN [bins |-> st.bins, stray |-> st.stray] @@ retObj

\* Dataframe.prototype.histogram, given the column and its aggregations;
\* givenBinning is NoValue when the caller passes none
histogram(values, aggregations, givenBinning, goalNumberOfBins, indices) ==
    IF aggregations.countDistinct = 0 THEN [type |-> "nodata"]
    ELSE HistogramBins(values, aggregations.countDistinct,
             IF givenBinning = NoValue
             THEN calculateBinning(aggregations, aggregations.countDistinct,
                                   goalNumberOfBins)
             ELSE givenBinning,
             indices)

(* Specification of histogram: a column of up to BinMaxColumn integers, or *)
(* the same column with one half added to every defined value, its cached  *)
(* aggregations, an ascending index subset, and either no binning or the   *)
(* binning calculateBinning gives for the column.                          *)

ShiftedColumn(values, shift) ==
    [i \in DOMAIN values |->
        IF numberSignifiesUndefined(values[i]) THEN values[i]
        ELSE JsPlus(values[i], shift)]

HistInit ==
    /\ \E values \in BinColumns, shift \in {Finite(0), Quot(1, 2)},
          goal \in 0..MaxGoalBins :
          LET aggregations == AggregationsOf(values, shift)
          IN call \in [op : {"histogram"},
                       values : {ShiftedColumn(values, shift)},
                       aggregations : {aggregations},
                       binning : {NoValue,
                                  calculateBinning(aggregations,
                                      aggregations.countDistinct, goal)},
                       goalNumberOfBins : {goal},
                       indices : {Ascending(S) : S \in SUBSET DOMAIN values}]
    /\ returned = NoValue /\ stream = NoValue
    /\ encIn = NoValue /\ encOut = NoValue
    /\ cmArgs = NoValue /\ cmHeap = NoValue /\ cmOut = NoValue
    /\ DfUnused

Histogram ==
    /\ call.op = "histogram" /\ returned = NoValue
    /\ returned' = histogram(call.values, call.aggregations, call.binning,
                             call.goalNumberOfBins, call.indices)
    /\ UNCHANGED <<call, stream, encVars, cmVars, dfVars>>

HistNext == Histogram

HistSpec == HistInit /\ [][HistNext]_vars

(* Properties of histogram *)

HistDone == call # NoValue /\ call.op = "histogram" /\ returned # NoValue

\* the bin id the loop computes for a value under the returned binning
BinIdOf(value) ==
    ToInt32(JsDiv(JsMinus(value, returned.minValue), returned.binWidth))

\* C27: for every histogram call with a binning and an index subset, every
\* defined value at a listed index falls in a bin id within 0..numBins-1,
\* and the sum of the returned bins equals the number of listed indices whose
\* value is defined, the single-bin case included.
C27_BinsCountListedDefined ==
    (HistDone /\ "bins" \in DOMAIN returned) =>
        /\ \A k \in ListedDefined(call.values, call.indices) :
              BinIdOf(call.values[call.indices[k]]) \in DOMAIN returned.bins
        /\ returned.stray = {}
        /\ SumOver(returned.bins, DOMAIN returned.bins)
              = Cardinality(ListedDefined(call.values, call.indices))

-----------------------------------------------------------------------------
(* The event loop of stream(socket, renderConfig, colorTexture)            *)

\* socket.emit('vbo_update', metadata): metadata.step is read from the shared
\* step variable; emitted lists the steps sent on the socket
EmitVboUpdate(st) ==
    [st EXCEPT !.emitted = Append(@, st.step), !.pc = "emitted"]

\* colorTexture.flatMap(...): a loaded texture is replayed at once, otherwise
\* the notification waits for the texture
NotifyClient(st) ==
    IF st.colorTexture = "loaded" THEN EmitVboUpdate(st)
    ELSE [st EXCEPT !.pc = "texture"]

\* clientReady.filter(_.identity).take(1).do(...): the client is marked as
\* processing and the loop goes on to notify it
ClientReadyProceed(st) == NotifyClient([st EXCEPT !.clientReady = FALSE])

(* Specification of one streaming loop.  clientReady is the value the      *)
(* ReplaySubject holds; acknowledged counts the updates that had been      *)
(* emitted when the latest 'received_buffers' arrived.  The colour texture *)
(* is loaded or still being read when the loop starts; the client's        *)
(* messages arrive at any time.                                            *)

StreamInit ==
    /\ stream \in [clientReady : {TRUE},
                   step : {0},
                   colorTexture : {"loading", "loaded"},
                   pc : {"graph"},
                   emitted : {<<>>},
                   acknowledged : {0}]
    /\ call = NoValue /\ returned = NoValue
    /\ encIn = NoValue /\ encOut = NoValue
    /\ cmArgs = NoValue /\ cmHeap = NoValue /\ cmOut = NoValue
    /\ DfUnused

\* the graph subject delivers its value: first run of the expand selector
GraphEmits ==
    /\ stream.pc = "graph"
    /\ stream' = [stream EXCEPT !.step = @ + 1, !.pc = "fetch"]
    /\ UNCHANGED <<call, returned, encVars, cmVars, dfVars>>

\* ticksMulti.take(1) delivers the next animation tick: the selector runs again
NextTick ==
    /\ stream.pc = "tick"
    /\ stream.step < MaxSteps
    /\ stream' = [stream EXCEPT !.step = @ + 1, !.pc = "fetch"]
    /\ UNCHANGED <<call, returned, encVars, cmVars, dfVars>>

\* driver.fetchData resolves; the loop subscribes to clientReady
FetchDataDone ==
    /\ stream.pc = "fetch"
    /\ stream' = IF stream.clientReady THEN ClientReadyProceed(stream)
                 ELSE [stream EXCEPT !.pc = "ready"]
    /\ UNCHANGED <<call, returned, encVars, cmVars, dfVars>>

\* driver.fetchData fails: 'Main loop failure', the loop ends
FetchDataFail ==
    /\ stream.pc = "fetch"
    /\ stream' = [stream EXCEPT !.pc = "failed"]
    /\ UNCHANGED <<call, returned, encVars, cmVars, dfVars>>

\* socket.on('received_buffers'): clientReady.onNext(true), which a loop
\* waiting on clientReady takes in the same turn
ReceivedBuffers ==
    /\ LET st == [stream EXCEPT !.clientReady = TRUE,
                                !.acknowledged = Len(stream.emitted)]
       IN stream' = IF st.pc = "ready" THEN ClientReadyProceed(st) ELSE st
    /\ UNCHANGED <<call, returned, encVars, cmVars, dfVars>>

\* the colour texture has been read and compressed
ColorTextureLoaded ==
    /\ stream.colorTexture = "loading"
    /\ LET st == [stream EXCEPT !.colorTexture = "loaded"]
       IN stream' = IF st.pc = "texture" THEN EmitVboUpdate(st) ELSE st
    /\ UNCHANGED <<call, returned, encVars, cmVars, dfVars>>

\* the client calls back on 'vbo_update'; the loop waits for the next tick
VboUpdateCallback ==
    /\ stream.pc = "emitted"
    /\ stream' = [stream EXCEPT !.pc = "tick"]
    /\ UNCHANGED <<call, returned, encVars, cmVars, dfVars>>

StreamNext ==
    \/ GraphEmits
    \/ NextTick
    \/ FetchDataDone
    \/ FetchDataFail
    \/ ReceivedBuffers
    \/ ColorTextureLoaded
    \/ VboUpdateCallback

StreamSpec == StreamInit /\ [][StreamNext]_vars

(* Properties of the streaming loop *)

\* updates emitted since the latest 'received_buffers'
Outstanding == Len(stream.emitted) - stream.acknowledged

StepsIncrease ==
    \A i, j \in DOMAIN stream.emitted : i < j => stream.emitted[i] < stream.emitted[j]

\* C30: for every interleaving of animation ticks and client messages at
\* most one 'vbo_update' is outstanding (emitted and not yet followed by a
\* 'received_buffers') on the socket, and the step sent in successive
\* updates strictly increases.
C30_OneOutstandingUpdate ==
    stream # NoValue => (Outstanding <= 1 /\ StepsIncrease)

\* the steps sent strictly increase in every case
C30_StepsIncrease == stream # NoValue => StepsIncrease

\* at most one update is outstanding when the colour texture was loaded
\* before the loop started
C30_OneOutstandingTextureLoaded ==
    (stream # NoValue /\ stream.colorTexture = "loaded") => [](Outstanding <= 1)

====
